---- MODULE Spec2Model ----
(***************************************************************************)
(* Model of the Mitsuba 3 "Transformation toolbox" notebook                *)
(* (src/unnamed/part_000): Frame3f, Transform4f / ProjectiveTransform4f,   *)
(* their named constructors, fluent chaining, the @ operator and           *)
(* inverse().                                                              *)
(*                                                                         *)
(* Numbers are exact rationals <<num, den>> in lowest terms with den > 0,   *)
(* extended by the special values of floating point: +infinity <<1, 0>>,   *)
(* -infinity <<-1, 0>> and NaN <<0, 0>>, with the arithmetic of IEEE 754    *)
(* (x / 0 is an infinity when x is not 0, 0 / 0 and 0 * infinity are NaN);  *)
(* zero has no sign.  The notebook runs in single precision, so an         *)
(* equality proved here is the notebook's equality up to rounding (cell 7  *)
(* prints -4.37114e-08 where the exact value is 0).                        *)
(***************************************************************************)
EXTENDS Integers, Sequences, FiniteSets, TLC

VARIABLES trafo, base, chain, S, pending, frame, ptrafo, last, nops

vars == <<trafo, base, chain, S, pending, frame, ptrafo, last, nops>>

(***************************************************************************)
(* Bounds                                                                  *)
(***************************************************************************)
\* Number of transforms constructed in one run (named constructors,
\* Transform4f(), Transform4f(matrix) and inverse()).
MaxOps == 2

(***************************************************************************)
(* Rational arithmetic                                                     *)
(***************************************************************************)
Abs(x) == IF x < 0 THEN -x ELSE x

RECURSIVE GCD(_, _)
GCD(a, b) == IF b = 0 THEN a ELSE GCD(b, a % b)

NaN == <<0, 0>>

IsNaN(a) == a[1] = 0 /\ a[2] = 0

\* +infinity or -infinity.
IsInf(a) == a[1] # 0 /\ a[2] = 0

\* Neither NaN nor an infinity.
IsFinite(a) == a[2] # 0

Sgn(k) == IF k < 0 THEN -1 ELSE IF k > 0 THEN 1 ELSE 0

\* n/d in lowest terms; n/0 is the infinity of the sign of n, 0/0 is NaN.
Rat(n, d) ==
    IF d = 0 THEN <<Sgn(n), 0>>
    ELSE LET g == GCD(Abs(n), Abs(d))
             s == IF d < 0 THEN -1 ELSE 1
         IN  <<(s * n) \div g, (s * d) \div g>>

R(n) == <<n, 1>>

\* Sums and products cancel common factors before multiplying, so that the
\* intermediate integers stay small.
RAdd(a, b) ==
    IF a[2] = 0 \/ b[2] = 0
    THEN IF IsNaN(a) \/ IsNaN(b) THEN NaN
         ELSE IF a[2] # 0 THEN b
         ELSE IF b[2] # 0 \/ a = b THEN a
         ELSE NaN                               \* infinity - infinity
    ELSE IF a[2] = 1 /\ b[2] = 1 THEN <<a[1] + b[1], 1>>
    ELSE LET g == GCD(a[2], b[2])
         IN  Rat(a[1] * (b[2] \div g) + b[1] * (a[2] \div g), a[2] * (b[2] \div g))

RMul(a, b) ==
    IF a[2] = 0 \/ b[2] = 0
    THEN <<Sgn(a[1]) * Sgn(b[1]), 0>>           \* 0 * infinity is NaN
    ELSE IF a[2] = 1 /\ b[2] = 1 THEN <<a[1] * b[1], 1>>
    ELSE LET g == GCD(Abs(a[1]), b[2])
             h == GCD(Abs(b[1]), a[2])
         IN  Rat((a[1] \div g) * (b[1] \div h), (a[2] \div h) * (b[2] \div g))

RNeg(a)    == <<-a[1], a[2]>>
RSub(a, b) == RAdd(a, RNeg(b))

\* 1/a: the reciprocal of 0 is +infinity, that of an infinity is 0.
RInv(a) ==
    IF IsNaN(a) THEN NaN
    ELSE IF a[2] = 0 THEN R(0)
    ELSE IF a[1] < 0 THEN <<-a[2], -a[1]>>
    ELSE <<a[2], a[1]>>

\* a/b: x/0 is an infinity of the sign of x, 0/0 and infinity/infinity are
\* NaN.
RDiv(a, b) == RMul(a, RInv(b))

\* Integer square root of a perfect square (0 when n is not one).
RECURSIVE ISqrtFrom(_, _)
ISqrtFrom(n, k) ==
    IF k * k = n THEN k
    ELSE IF k * k > n THEN 0
    ELSE ISqrtFrom(n, k + 1)

\* Largest k with k * k <= n, searched upwards from k.
RECURSIVE ISqrtFloor(_, _)
ISqrtFloor(n, k) ==
    IF (k + 1) * (k + 1) > n THEN k ELSE ISqrtFloor(n, k + 1)

\* Binary digits of the square root of x, one per step.  r is the root so
\* far, floor(sqrt(x) * 2^k), and q + f/d is the remainder x * 4^k - r * r.
\* A single-precision float has 24 significant bits: the digits stop at 25
\* bits (r >= 2^24), and the last one and the remainder round the result to
\* the nearest float, ties to even.
RECURSIVE SqrtBits(_, _, _, _, _)
SqrtBits(r, q, f, d, k) ==
    IF r >= 2^24
    THEN LET m  == r \div 2
             up == IF r % 2 = 1 /\ (q # 0 \/ f # 0 \/ m % 2 = 1) THEN 1 ELSE 0
         IN  Rat(m + up, 2^(k - 1))
    ELSE LET q4 == 4 * q + ((4 * f) \div d)
             f4 == (4 * f) % d
             t  == 4 * r + 1
         IN  IF q4 >= t
             THEN SqrtBits(2 * r + 1, q4 - t, f4, d, k + 1)
             ELSE SqrtBits(2 * r, q4, f4, d, k + 1)

\* Square root.  Exact when the numerator and the denominator are perfect
\* squares; otherwise the root is irrational and the result is the
\* single-precision float nearest to it, as the float type of the code
\* returns.  NaN only for NaN and for a negative number.
RSqrt(a) ==
    IF IsNaN(a) \/ a[1] < 0 THEN NaN
    ELSE IF a[2] = 0 THEN a
    ELSE IF a[1] = 0 THEN R(0)
    ELSE LET n == ISqrtFrom(a[1], 1)
             d == ISqrtFrom(a[2], 1)
         IN  IF n # 0 /\ d # 0
             THEN Rat(n, d)
             ELSE LET r0 == ISqrtFloor(a[1] \div a[2], 0)
                  IN  SqrtBits(r0, (a[1] \div a[2]) - r0 * r0,
                               a[1] % a[2], a[2], 0)

(***************************************************************************)
(* Vectors (sequences of rationals) and matrices (sequences of rows)       *)
(***************************************************************************)
\* The sequence <<F(1), ..., F(n)>>, built as an explicit tuple for the
\* dimensions that occur (2, 3 and 4).
Tup(n, F(_)) ==
    CASE n = 1 -> <<F(1)>>
      [] n = 2 -> <<F(1), F(2)>>
      [] n = 3 -> <<F(1), F(2), F(3)>>
      [] n = 4 -> <<F(1), F(2), F(3), F(4)>>

\* Sum of u[i] * v[i]; a term that is exactly zero is skipped.
RECURSIVE DotFrom(_, _, _, _)
DotFrom(u, v, i, acc) ==
    IF i > Len(u) THEN acc
    ELSE DotFrom(u, v, i + 1,
                 IF (u[i][1] = 0 /\ u[i][2] # 0 /\ v[i][2] # 0)
                    \/ (v[i][1] = 0 /\ v[i][2] # 0 /\ u[i][2] # 0)
                 THEN acc
                 ELSE RAdd(acc, RMul(u[i], v[i])))

dot(u, v) == DotFrom(u, v, 1, R(0))

cross(u, v) ==
    << RSub(RMul(u[2], v[3]), RMul(u[3], v[2])),
       RSub(RMul(u[3], v[1]), RMul(u[1], v[3])),
       RSub(RMul(u[1], v[2]), RMul(u[2], v[1])) >>

VSub(u, v)   == Tup(Len(u), LAMBDA i : RSub(u[i], v[i]))
VNeg(u)      == Tup(Len(u), LAMBDA i : RNeg(u[i]))
VScale(c, u) == Tup(Len(u), LAMBDA i : RMul(c, u[i]))

norm(u) == RSqrt(dot(u, u))

normalize(u) == LET l == norm(u) IN Tup(Len(u), LAMBDA i : RDiv(u[i], l))

\* Integer vector literal.
V3(x, y, z) == <<R(x), R(y), R(z)>>

Col(m, j) == Tup(Len(m), LAMBDA i : m[i][j])

transpose(m) == Tup(Len(m), LAMBDA i : Tup(Len(m), LAMBDA j : m[j][i]))

\* Sum over k of a[i][k] * b[k][j]; a term that is exactly zero is skipped.
RECURSIVE Entry(_, _, _, _, _, _)
Entry(a, i, b, j, k, acc) ==
    IF k > Len(a) THEN acc
    ELSE Entry(a, i, b, j, k + 1,
               IF (a[i][k][1] = 0 /\ a[i][k][2] # 0 /\ b[k][j][2] # 0)
                  \/ (b[k][j][1] = 0 /\ b[k][j][2] # 0 /\ a[i][k][2] # 0)
               THEN acc
               ELSE RAdd(acc, RMul(a[i][k], b[k][j])))

MatMul(a, b) ==
    Tup(Len(a), LAMBDA i : Tup(Len(a), LAMBDA j : Entry(a, i, b, j, 1, R(0))))

MatVec(m, v) == Tup(Len(m), LAMBDA i : dot(m[i], v))

Identity(n) == Tup(n, LAMBDA i : Tup(n, LAMBDA j : IF i = j THEN R(1) ELSE R(0)))

\* Upper-left 3x3 block of a 4x4 matrix.
Sub3(m) == Tup(3, LAMBDA i : Tup(3, LAMBDA j : m[i][j]))

\* The sequence s without its k-th element.
Drop(s, k) == Tup(Len(s) - 1, LAMBDA i : IF i < k THEN s[i] ELSE s[i + 1])

\* m without row r and column c.
Minor(m, r, c) == Tup(Len(m) - 1, LAMBDA i : Drop(Drop(m, r)[i], c))

Sign(k) == IF k % 2 = 0 THEN R(1) ELSE R(-1)

\* No entry of m is NaN or an infinity.
AllFinite(m) == \A i \in 1..Len(m), j \in 1..Len(m) : m[i][j][2] # 0

RECURSIVE det(_)
RECURSIVE DetRow(_, _, _)
DetRow(m, j, acc) ==
    IF j > Len(m) THEN acc
    ELSE DetRow(m, j + 1,
                IF m[1][j] = R(0) /\ AllFinite(m) THEN acc
                ELSE RAdd(acc, RMul(RMul(Sign(1 + j), m[1][j]), det(Minor(m, 1, j)))))

det(m) == IF Len(m) = 1 THEN m[1][1] ELSE DetRow(m, 1, R(0))

AllNaN(n) == Tup(n, LAMBDA i : Tup(n, LAMBDA j : NaN))

\* Matrix inverse: the adjugate times the reciprocal of the determinant.
\* When the determinant is 0 the reciprocal is infinite, so an entry is an
\* infinity where its cofactor is not 0 and NaN where it is 0 (cell 4 of the
\* notebook prints an inverse of NaN throughout: every cofactor of its
\* matrix is 0).
MatInverse(m) ==
    LET inv_det == RInv(det(m))
    IN  Tup(Len(m), LAMBDA i : Tup(Len(m), LAMBDA j :
            RMul(RMul(Sign(i + j), det(Minor(m, j, i))), inv_det)))

(***************************************************************************)
(* Frame3f                                                                 *)
(***************************************************************************)
\* A constructor that normalizes the three vectors.
Frame3f_normalized(s, t, n) == [s |-> normalize(s), t |-> normalize(t), n |-> normalize(n)]

\* Frame3f(s, t, n): the three vectors are stored as given (cells 3, 11).
Frame3f(s, t, n) == [s |-> s, t |-> t, n |-> n]

\* mi.Frame3f(): the vectors hold the default of the vector type, zero.
Frame3f_default == Frame3f(V3(0, 0, 0), V3(0, 0, 0), V3(0, 0, 0))

\* A complementary basis with s and t exchanged.
coordinate_system_swapped(n) ==
    LET sg == IF n[3][1] < 0 THEN R(-1) ELSE R(1)
        a  == RNeg(RInv(RAdd(sg, n[3])))
        b  == RMul(RMul(n[1], n[2]), a)
    IN  << <<b, RAdd(sg, RMul(RMul(n[2], n[2]), a)), RNeg(n[2])>>,
           <<RAdd(RMul(sg, RMul(RMul(n[1], n[1]), a)), R(1)), RMul(sg, b),
             RNeg(RMul(sg, n[1]))>> >>

\* coordinate_system(n): the pair <<s, t>> that completes the unit vector n to
\* an orthonormal basis (cell 2: n = [0, 1, 0] gives s = [1, 0, 0],
\* t = [0, 0, -1]).  The sign of n.z, with 1 for 0, selects the branch.
coordinate_system(n) ==
    LET sg == IF n[3][1] < 0 THEN R(-1) ELSE R(1)
        a  == RNeg(RInv(RAdd(sg, n[3])))
        b  == RMul(RMul(n[1], n[2]), a)
    IN  << <<RAdd(RMul(sg, RMul(RMul(n[1], n[1]), a)), R(1)), RMul(sg, b),
             RNeg(RMul(sg, n[1]))>>,
           <<b, RAdd(sg, RMul(RMul(n[2], n[2]), a)), RNeg(n[2])>> >>

\* Frame3f(n): s and t come from coordinate_system(n), n is stored as given.
Frame3f_from_normal(n) ==
    LET st == coordinate_system(n) IN [s |-> st[1], t |-> st[2], n |-> n]

\* to_local with the components in the order n, t, s.
to_local_reversed(f, v) == <<dot(v, f.n), dot(v, f.t), dot(v, f.s)>>

\* frame.to_local(v) = (v.s, v.t, v.n)   (cell 3: (3,2,1) -> (1,2,3)).
to_local(f, v) == <<dot(v, f.s), dot(v, f.t), dot(v, f.n)>>

\* frame.to_world(v) = v.x * s + v.y * t + v.z * n.
to_world(f, v) ==
    Tup(3, LAMBDA i :
        RAdd(RAdd(RMul(v[1], f.s[i]), RMul(v[2], f.t[i])), RMul(v[3], f.n[i])))

(***************************************************************************)
(* Transform4f: a matrix and the transpose of its inverse                  *)
(***************************************************************************)
Transform(m, it) == [matrix |-> m, inverse_transpose |-> it]

\* A default constructor that leaves both matrices zero.
Transform4f_zero ==
    LET z == Tup(4, LAMBDA i : Tup(4, LAMBDA j : R(0))) IN Transform(z, z)

\* mi.Transform4f(): the default constructor is the identity.
Transform4f == Transform(Identity(4), Identity(4))

\* A constructor that falls back to the identity for a singular matrix.
from_matrix_fallback(m) ==
    Transform(m, IF det(m) = R(0) THEN Identity(Len(m)) ELSE transpose(MatInverse(m)))

\* mi.Transform4f(matrix): the inverse transpose is computed from the matrix.
from_matrix(m) == Transform(m, transpose(MatInverse(m)))

\* A scalar argument <<c>> stands for the vector (c, c, c)   (scale(2.0)).
Vector3f(a) == IF Len(a) = 1 THEN <<a[1], a[1], a[1]>> ELSE a

\* A translation matrix that holds the displacement in its last row.
TranslateMatrix_row(d) ==
    << <<R(1), R(0), R(0), R(0)>>,
       <<R(0), R(1), R(0), R(0)>>,
       <<R(0), R(0), R(1), R(0)>>,
       <<d[1], d[2], d[3], R(1)>> >>

TranslateMatrix(d) ==
    << <<R(1), R(0), R(0), d[1]>>,
       <<R(0), R(1), R(0), d[2]>>,
       <<R(0), R(0), R(1), d[3]>>,
       <<R(0), R(0), R(0), R(1)>> >>

ScaleMatrix(f) ==
    << <<f[1], R(0), R(0), R(0)>>,
       <<R(0), f[2], R(0), R(0)>>,
       <<R(0), R(0), f[3], R(0)>>,
       <<R(0), R(0), R(0), R(1)>> >>

\* The 4x4 matrix whose first three columns are a, b, c (w = 0) and whose
\* last column is (o, 1).
FromCols(a, b, c, o) ==
    << <<a[1], b[1], c[1], o[1]>>,
       <<a[2], b[2], c[2], o[2]>>,
       <<a[3], b[3], c[3], o[3]>>,
       <<R(0), R(0), R(0), R(1)>> >>

\* A translation whose inverse transpose carries +delta.
translate_same_sign(delta) ==
    Transform(TranslateMatrix(delta), transpose(TranslateMatrix(delta)))

\* Transform4f().translate(delta)   (cell 5).
translate(delta) ==
    Transform(TranslateMatrix(delta), transpose(TranslateMatrix(VNeg(delta))))

\* A scaling that also scales the homogeneous entry by the first factor.
scale_homogeneous(factor) ==
    LET f == Vector3f(factor)
        h == << <<R(1), R(0), R(0), R(0)>>,
                <<R(0), R(1), R(0), R(0)>>,
                <<R(0), R(0), R(1), R(0)>>,
                <<R(0), R(0), R(0), f[1]>> >>
    IN  Transform(MatMul(ScaleMatrix(f), h),
                  MatMul(ScaleMatrix(<<RInv(f[1]), RInv(f[2]), RInv(f[3])>>),
                         transpose(MatInverse(h))))

\* Transform4f().scale(factor)   (cell 6).
scale(factor) ==
    LET f == Vector3f(factor)
    IN  Transform(ScaleMatrix(f), ScaleMatrix(<<RInv(f[1]), RInv(f[2]), RInv(f[3])>>))

\* cos and sin of an angle given in degrees, for the multiples of 90.
CosDeg(a) == CASE a % 360 = 0   -> R(1)
               [] a % 360 = 90  -> R(0)
               [] a % 360 = 180 -> R(-1)
               [] a % 360 = 270 -> R(0)

SinDeg(a) == CASE a % 360 = 0   -> R(0)
               [] a % 360 = 90  -> R(1)
               [] a % 360 = 180 -> R(0)
               [] a % 360 = 270 -> R(-1)

\* Rotation about the unit vector `axis` by `angle` degrees (Rodrigues).
RotateMatrix(axis, angle) ==
    LET c  == CosDeg(angle)
        s  == SinDeg(angle)
        k  == RSub(R(1), c)
        x  == axis[1]
        y  == axis[2]
        z  == axis[3]
        E(a, b, w, sg) == RAdd(RMul(k, RMul(a, b)), RMul(sg, RMul(s, w)))
    IN  << <<RAdd(RMul(k, RMul(x, x)), c), E(x, y, z, R(-1)), E(x, z, y, R(1)), R(0)>>,
           <<E(y, x, z, R(1)), RAdd(RMul(k, RMul(y, y)), c), E(y, z, x, R(-1)), R(0)>>,
           <<E(z, x, y, R(-1)), E(z, y, x, R(1)), RAdd(RMul(k, RMul(z, z)), c), R(0)>>,
           <<R(0), R(0), R(0), R(1)>> >>

\* A rotate that turns the other way round.
rotate_clockwise(axis, angle) ==
    LET m == RotateMatrix(normalize(axis), 360 - (angle % 360)) IN Transform(m, m)

\* Transform4f().rotate(axis, angle)   (cell 7): a rotation matrix is its own
\* inverse transpose.
rotate(axis, angle) ==
    LET m == RotateMatrix(normalize(axis), angle) IN Transform(m, m)

\* A look_at whose first axis is cross(forward, up).
look_at_flipped(origin, target, up) ==
    LET dir    == normalize(VSub(target, origin))
        left   == normalize(cross(dir, up))
        new_up == cross(dir, left)
        rot    == FromCols(left, new_up, dir, V3(0, 0, 0))
        inv    == MatMul(transpose(rot), TranslateMatrix(VNeg(origin)))
    IN  Transform(FromCols(left, new_up, dir, origin), transpose(inv))

\* Transform4f().look_at(origin, target, up)   (cell 8).
look_at(origin, target, up) ==
    LET dir    == normalize(VSub(target, origin))
        left   == normalize(cross(up, dir))
        new_up == cross(dir, left)
        rot    == FromCols(left, new_up, dir, V3(0, 0, 0))
        inv    == MatMul(transpose(rot), TranslateMatrix(VNeg(origin)))
    IN  Transform(FromCols(left, new_up, dir, origin), transpose(inv))

\* Transform4f().to_frame(frame)   (cell 11): the columns are s, t, n, and
\* the same matrix is stored as the inverse transpose.
to_frame(f) ==
    LET m == FromCols(f.s, f.t, f.n, V3(0, 0, 0)) IN Transform(m, m)

\* matmul whose inverse transposes are multiplied in the opposite order.
matmul_it_reversed(A, B) ==
    Transform(MatMul(A.matrix, B.matrix),
              MatMul(B.inverse_transpose, A.inverse_transpose))

\* matmul with the operands exchanged.
matmul_swapped(A, B) ==
    Transform(MatMul(B.matrix, A.matrix),
              MatMul(B.inverse_transpose, A.inverse_transpose))

\* T1 @ T2 on two transforms   (cells 12, 13, 15).
matmul(A, B) ==
    Transform(MatMul(A.matrix, B.matrix),
              MatMul(A.inverse_transpose, B.inverse_transpose))

\* An orthographic projection that scales z without moving the near plane
\* to 0.
orthographic_unshifted(near, far) ==
    scale(<<R(1), R(1), RInv(RSub(far, near))>>)

\* Transform4f().orthographic(near, far)   (cell 10).
orthographic(near, far) ==
    matmul(scale(<<R(1), R(1), RInv(RSub(far, near))>>),
           translate(<<R(0), R(0), RNeg(near)>>))

\* tan of half the field of view, for fov = 90 degrees.
TanHalf(fov) == CASE fov = 90 -> R(1)

\* ProjectiveTransform4f().perspective(fov, near, far)   (cell 9).
perspective(fov, near, far) ==
    LET recip == RInv(RSub(far, near))
        tn    == TanHalf(fov)
        cot   == RInv(tn)
        m     == << <<cot, R(0), R(0), R(0)>>,
                    <<R(0), cot, R(0), R(0)>>,
                    <<R(0), R(0), RMul(far, recip), RNeg(RMul(RMul(near, far), recip))>>,
                    <<R(0), R(0), R(1), R(0)>> >>
        inv   == << <<tn, R(0), R(0), R(0)>>,
                    <<R(0), tn, R(0), R(0)>>,
                    <<R(0), R(0), R(0), R(1)>>,
                    <<R(0), R(0), RDiv(RSub(near, far), RMul(far, near)), RInv(near)>> >>
    IN  Transform(m, transpose(inv))

\* T.inverse(): the two stored matrices change places, transposed.
inverse(T) == Transform(transpose(T.inverse_transpose), transpose(T.matrix))

\* Fluent call that multiplies the named transform on the left.
Chained_left(X, named) == matmul(named, X)

\* Fluent call X.op(args): the named transform is multiplied on the right
\* (cells 14 and 15).
Chained(X, named) == matmul(X, named)

(***************************************************************************)
(* T @ entity                                                              *)
(***************************************************************************)
\* A vector transformed as if it were a point.
TransformVector_affine(T, v) ==
    LET h == MatVec(T.matrix, <<v[1], v[2], v[3], R(1)>>) IN <<h[1], h[2], h[3]>>

\* T @ Vector3f: the linear part only.
TransformVector(T, v) == MatVec(Sub3(T.matrix), v)

\* T @ Point3f for the affine Transform4f: homogeneous coordinate 1.
TransformPoint(T, p) ==
    LET h == MatVec(T.matrix, <<p[1], p[2], p[3], R(1)>>) IN <<h[1], h[2], h[3]>>

\* A projective application that leaves out the division.
ProjectPoint_affine(T, p) ==
    LET h == MatVec(T.matrix, <<p[1], p[2], p[3], R(1)>>) IN <<h[1], h[2], h[3]>>

\* A projective application that divides by the depth instead of the
\* homogeneous coordinate.
ProjectPoint_by_depth(T, p) ==
    LET h == MatVec(T.matrix, <<p[1], p[2], p[3], R(1)>>)
    IN  <<RDiv(h[1], h[3]), RDiv(h[2], h[3]), RDiv(h[3], h[3])>>

\* T @ Point3f for ProjectiveTransform4f: divide by the homogeneous coordinate.
ProjectPoint(T, p) ==
    LET h == MatVec(T.matrix, <<p[1], p[2], p[3], R(1)>>)
    IN  <<RDiv(h[1], h[4]), RDiv(h[2], h[4]), RDiv(h[3], h[4])>>

\* T @ Normal3f: the linear part of the inverse transpose.
TransformNormal(T, n) == MatVec(Sub3(T.inverse_transpose), n)

\* Ray3f(o, d): an origin and a direction.
Ray3f(o, d) == [o |-> o, d |-> d]

\* A ray whose direction is transformed as a point.
TransformRay_affine(T, ray) ==
    Ray3f(TransformPoint(T, ray.o), TransformPoint(T, ray.d))

\* T @ Ray3f: the origin is transformed as a point and the direction as a
\* vector.
TransformRay(T, ray) == Ray3f(TransformPoint(T, ray.o), TransformVector(T, ray.d))

\* The @ operator dispatches on the kind of its right operand.
Apply(T, kind, x) ==
    CASE kind = "vector" -> TransformVector(T, x)
      [] kind = "point"  -> TransformPoint(T, x)
      [] kind = "normal" -> TransformNormal(T, x)

\* T @ Vector3f for ProjectiveTransform4f: the product with the vector in
\* homogeneous coordinates, its fourth coordinate being 0.
ProjectVector(T, v) ==
    LET h == MatVec(T.matrix, <<v[1], v[2], v[3], R(0)>>) IN <<h[1], h[2], h[3]>>

\* T @ Ray3f for ProjectiveTransform4f.
ProjectRay(T, ray) == Ray3f(ProjectPoint(T, ray.o), ProjectVector(T, ray.d))

\* The @ operator of ProjectiveTransform4f: vectors and points are
\* multiplied in homogeneous coordinates, and points are divided by their
\* homogeneous coordinate.
ProjectiveApply(T, kind, x) ==
    CASE kind = "vector" -> ProjectVector(T, x)
      [] kind = "point"  -> ProjectPoint(T, x)
      [] kind = "normal" -> TransformNormal(T, x)
      [] kind = "ray"    -> ProjectRay(T, x)

(***************************************************************************)
(* Inputs: the arguments the notebook passes                               *)
(***************************************************************************)
\* translate([0, 1, 2]) (cell 12), translate([1, 0, 0]) (cell 14).
Deltas == {V3(0, 1, 2), V3(1, 0, 0)}

\* scale(2.0) (cells 13, 14), scale([1, 2, 3]) (cell 12).
Factors == {<<R(2)>>, V3(1, 2, 3)}

\* rotate(axis=[0, 1, 0], angle=90) (cell 7).
Rotations == {[axis |-> V3(0, 1, 0), angle |-> 90]}

\* look_at(origin=[0, 0, 2], target=[0, 0, 0], up=[0, 1, 0]) (cell 8).
LookAts == {[origin |-> V3(0, 0, 2), target |-> V3(0, 0, 0), up |-> V3(0, 1, 0)]}

\* Clipping planes for orthographic and perspective.  Cells 9 and 10 pass
\* near = 0.1, far = 10; the planes used in the runs are near = 1, far = 3,
\* which keep the products of several such transforms small.
Clips == {[near |-> R(1), far |-> R(3)]}

\* The clipping planes of cells 9 and 10.
NotebookClip == [near |-> Rat(1, 10), far |-> R(10)]

\* The clipping planes given to perspective.
ProjClips == Clips \cup {NotebookClip}

Fovs == {90}

\* Points given to a projective transform: [2, -2, 2] (cell 9), and points
\* on the near and far planes of ProjClips.
ProjPoints ==
    { V3(2, -2, 2), V3(1, 2, 1), V3(1, 2, 3),
      <<R(1), R(1), Rat(1, 10)>>, V3(3, 4, 10) }

\* The frames of cells 3 and 11, and an orthonormal right-handed frame whose
\* matrix is not symmetric.
Frames ==
    { [s |-> V3(0, 0, 1), t |-> V3(0, 1, 0), n |-> V3(1, 0, 0)],
      [s |-> V3(0, 0, 1), t |-> V3(0, 2, 0), n |-> V3(3, 0, 0)],
      [s |-> V3(0, 1, 0), t |-> V3(0, 0, 1), n |-> V3(1, 0, 0)] }

\* Unit vectors given to Frame3f(n): [0, 1, 0] (cell 2), the other axes, and
\* two vectors off the axes, one with negative z.
Normals ==
    { V3(0, 1, 0), V3(0, 0, 1), V3(0, 0, -1), V3(1, 0, 0),
      <<Rat(2, 3), Rat(2, 3), Rat(1, 3)>>, <<Rat(3, 5), R(0), Rat(-4, 5)>> }

\* Vectors given to to_local and to_world: [3, 2, 1] (cell 3) and two more.
FrameVectors == {V3(3, 2, 1), V3(3, 4, 5), V3(1, -1, 0)}

\* The row [3, 2, 3] broadcast over the columns of a 3x3 matrix (cell 4).
Cell4Matrix ==
    << <<R(3), R(3), R(3)>>,
       <<R(2), R(2), R(2)>>,
       <<R(3), R(3), R(3)>> >>

\* The printed matrix of cell 4 as the linear part of a 4x4 affine matrix: a
\* singular matrix all of whose cofactors are 0.
SingularMatrix ==
    << <<R(3), R(3), R(3), R(0)>>,
       <<R(2), R(2), R(2), R(0)>>,
       <<R(3), R(3), R(3), R(0)>>,
       <<R(0), R(0), R(0), R(1)>> >>

\* np_mat of cell 4, [[1, 2, 3], [4, 5, 6], [7, 8, 9]], as the linear part
\* of a 4x4 affine matrix: a singular matrix with cofactors other than 0.
SingularNpMatrix ==
    << <<R(1), R(2), R(3), R(0)>>,
       <<R(4), R(5), R(6), R(0)>>,
       <<R(7), R(8), R(9), R(0)>>,
       <<R(0), R(0), R(0), R(1)>> >>

\* An invertible matrix that no named constructor produces (a shear with a
\* translation), and the two singular matrices.
Matrices ==
    { << <<R(1), R(2), R(0), R(1)>>,
         <<R(0), R(1), R(0), R(0)>>,
         <<R(0), R(3), R(1), R(0)>>,
         <<R(0), R(0), R(0), R(1)>> >>,
      SingularMatrix,
      SingularNpMatrix }

\* Vector3f / Point3f / Normal3f arguments (cells 12, 13) and one more that
\* is orthogonal to the second.
Coords == {V3(3, 4, 5), V3(1, 1, 1), V3(1, -1, 0)}

\* The operands of cell 12: v = p = [3, 4, 5], n = [1, 0, 0].
Operand(kind) == IF kind = "normal" THEN V3(1, 0, 0) ELSE V3(3, 4, 5)

\* Rays: the point and a vector of cell 12 as origin and direction, and a ray
\* along the z axis.
Rays == {Ray3f(V3(3, 4, 5), V3(1, -1, 0)), Ray3f(V3(0, 0, 0), V3(0, 0, 1))}

Kinds == {"vector", "point", "normal"}

NoResult == [kind |-> "none", by |-> Transform4f, arg |-> V3(0, 0, 0), res |-> V3(0, 0, 0)]

(***************************************************************************)
(* State machine: one action per notebook statement                        *)
(***************************************************************************)
\* No application has been printed yet.
Running == last.kind = "none"

Init ==
    /\ trafo = Transform4f
    /\ base = Transform4f
    /\ chain = <<>>
    /\ S = Transform4f
    /\ pending = FALSE
    /\ frame = Frame3f(V3(1, 0, 0), V3(0, 1, 0), V3(0, 0, 1))   \* cell 2
    /\ ptrafo = Transform4f
    /\ last = NoResult
    /\ nops = 0

\* A fluent call on the transform under construction.
Chain(name, args, named) ==
    /\ trafo' = Chained(trafo, named)
    /\ chain' = Append(chain, [op |-> name, args |-> args])
    /\ nops' = nops + 1
    /\ UNCHANGED <<base, S, pending, frame, ptrafo, last>>

\* A statement that replaces the transform under construction by t.
Fresh(t) ==
    /\ trafo' = t
    /\ base' = t
    /\ chain' = <<>>
    /\ nops' = nops + 1
    /\ UNCHANGED <<S, pending, frame, ptrafo, last>>

\* trafo = mi.Transform4f()
New ==
    /\ Running /\ nops < MaxOps
    /\ Fresh(Transform4f)

\* trafo = mi.Transform4f(matrix)
FromMatrix ==
    /\ Running /\ nops < MaxOps
    /\ \E m \in Matrices : Fresh(from_matrix(m))

\* trafo = trafo.translate(delta)
Translate ==
    /\ Running /\ nops < MaxOps
    /\ \E d \in Deltas : Chain("translate", d, translate(d))

\* trafo = trafo.scale(factor)
Scale ==
    /\ Running /\ nops < MaxOps
    /\ \E f \in Factors : Chain("scale", f, scale(f))

\* trafo = trafo.rotate(axis, angle)
Rotate ==
    /\ Running /\ nops < MaxOps
    /\ \E r \in Rotations : Chain("rotate", r, rotate(r.axis, r.angle))

\* trafo = trafo.look_at(origin, target, up)
LookAt ==
    /\ Running /\ nops < MaxOps
    /\ \E l \in LookAts : Chain("look_at", l, look_at(l.origin, l.target, l.up))

\* trafo = trafo.orthographic(near, far)
Orthographic ==
    /\ Running /\ nops < MaxOps
    /\ \E c \in Clips : Chain("orthographic", c, orthographic(c.near, c.far))

\* frame = mi.Frame3f(s, t, n); trafo = trafo.to_frame(frame)   (cell 11)
ToFrame ==
    /\ Running /\ nops < MaxOps
    /\ \E f \in Frames :
          /\ frame' = Frame3f(f.s, f.t, f.n)
          /\ trafo' = Chained(trafo, to_frame(frame'))
          /\ chain' = Append(chain, [op |-> "to_frame", args |-> frame'])
    /\ nops' = nops + 1
    /\ UNCHANGED <<base, S, pending, ptrafo, last>>

\* trafo = trafo.inverse()
Inverse ==
    /\ Running /\ nops < MaxOps
    /\ Fresh(inverse(trafo))

\* S = trafo; trafo = mi.Transform4f(): the transform built so far is kept as
\* the left operand of a later @.
Store ==
    /\ Running /\ ~pending
    /\ S' = trafo
    /\ pending' = TRUE
    /\ trafo' = Transform4f
    /\ base' = Transform4f
    /\ chain' = <<>>
    /\ UNCHANGED <<frame, ptrafo, last, nops>>

\* trafo = S @ trafo
Compose ==
    /\ Running /\ pending
    /\ trafo' = matmul(S, trafo)
    /\ base' = trafo'
    /\ chain' = <<>>
    /\ pending' = FALSE
    /\ UNCHANGED <<S, frame, ptrafo, last, nops>>

\* print(trafo @ x), for the Vector3f, Point3f and Normal3f of cell 12: the
\* last statement of a run, after any pending product has been formed.
ApplyTo ==
    /\ Running /\ ~pending
    /\ \E k \in Kinds :
          last' = [kind |-> k, by |-> trafo, arg |-> Operand(k),
                   res |-> Apply(trafo, k, Operand(k))]
    /\ UNCHANGED <<trafo, base, chain, S, pending, frame, ptrafo, nops>>

\* print(trafo @ ray): the last statement of a run.
ApplyToRay ==
    /\ Running /\ ~pending
    /\ \E r \in Rays :
          last' = [kind |-> "ray", by |-> trafo, arg |-> r, res |-> TransformRay(trafo, r)]
    /\ UNCHANGED <<trafo, base, chain, S, pending, frame, ptrafo, nops>>

\* frame = mi.Frame3f(): the empty frame of cell 2, whose vectors are zero.
FrameDefault ==
    /\ frame' = Frame3f_default
    /\ last' = [kind |-> "Frame3f()", by |-> frame', arg |-> <<>>,
                res |-> <<frame'.s, frame'.t, frame'.n>>]
    /\ UNCHANGED <<trafo, base, chain, S, pending, ptrafo, nops>>

\* frame = mi.Frame3f(n)
FrameFromNormal ==
    /\ \E n \in Normals :
          /\ frame' = Frame3f_from_normal(n)
          /\ last' = [kind |-> "Frame3f(n)", by |-> frame', arg |-> n,
                      res |-> <<frame'.s, frame'.t, frame'.n>>]
    /\ UNCHANGED <<trafo, base, chain, S, pending, ptrafo, nops>>

\* frame = mi.Frame3f(s, t, n)
FrameFromVectors ==
    /\ \E f \in Frames :
          /\ frame' = Frame3f(f.s, f.t, f.n)
          /\ last' = [kind |-> "Frame3f(s, t, n)", by |-> frame', arg |-> <<f.s, f.t, f.n>>,
                      res |-> <<frame'.s, frame'.t, frame'.n>>]
    /\ UNCHANGED <<trafo, base, chain, S, pending, ptrafo, nops>>

\* The last statement was a frame conversion.
Converted == last.kind \in {"to_local", "to_world"}

\* The vectors a frame conversion is applied to: the given ones and the
\* result of the conversion of a given one.
FrameOperands ==
    FrameVectors \cup
        (IF Converted /\ last.arg \in FrameVectors
         THEN {last.res} ELSE {})

\* frame.to_local(v)
ToLocal ==
    /\ \E v \in FrameOperands :
          last' = [kind |-> "to_local", by |-> frame, arg |-> v, res |-> to_local(frame, v)]
    /\ UNCHANGED <<trafo, base, chain, S, pending, frame, ptrafo, nops>>

\* frame.to_world(v)
ToWorld ==
    /\ \E v \in FrameOperands :
          last' = [kind |-> "to_world", by |-> frame, arg |-> v, res |-> to_world(frame, v)]
    /\ UNCHANGED <<trafo, base, chain, S, pending, frame, ptrafo, nops>>

\* ptrafo = ptrafo.perspective(fov, near, far)
Perspective ==
    /\ Running /\ nops < MaxOps
    /\ \E fov \in Fovs, c \in ProjClips :
          ptrafo' = Chained(ptrafo, perspective(fov, c.near, c.far))
    /\ nops' = nops + 1
    /\ UNCHANGED <<trafo, base, chain, S, pending, frame, last>>

\* ptrafo = ptrafo.translate(delta)
ProjTranslate ==
    /\ Running /\ nops < MaxOps
    /\ \E d \in Deltas : ptrafo' = Chained(ptrafo, translate(d))
    /\ nops' = nops + 1
    /\ UNCHANGED <<trafo, base, chain, S, pending, frame, last>>

\* ptrafo = ptrafo.inverse()
ProjInverse ==
    /\ Running /\ nops < MaxOps
    /\ ptrafo' = inverse(ptrafo)
    /\ nops' = nops + 1
    /\ UNCHANGED <<trafo, base, chain, S, pending, frame, last>>

Next ==
    \/ New
    \/ FromMatrix
    \/ Translate
    \/ Scale
    \/ Rotate
    \/ LookAt
    \/ Orthographic
    \/ ToFrame
    \/ Inverse
    \/ Store
    \/ Compose

\* ptrafo @ mi.Point3f(x, y, z): the last statement of a run.
ProjApply ==
    /\ Running
    /\ \E p \in ProjPoints :
          last' = [kind |-> "project", by |-> ptrafo, arg |-> p,
                   res |-> ProjectPoint(ptrafo, p)]
    /\ UNCHANGED <<trafo, base, chain, S, pending, frame, ptrafo, nops>>

\* The statements that build transforms.
Spec == Init /\ [][Next]_vars

\* The same statements, followed by one application to an entity.
ApplyNext == Next \/ ApplyTo \/ ApplyToRay

ApplySpec == Init /\ [][ApplyNext]_vars

\* The statements on frames.
FrameNext ==
    \/ FrameDefault
    \/ FrameFromNormal
    \/ FrameFromVectors
    \/ ToLocal
    \/ ToWorld

FrameSpec == Init /\ [][FrameNext]_vars

\* The statements on the projective variant.
ProjNext ==
    \/ Perspective
    \/ ProjTranslate
    \/ ProjInverse
    \/ ProjApply

ProjSpec == Init /\ [][ProjNext]_vars

(***************************************************************************)
(* Properties                                                              *)
(***************************************************************************)
\* The determinant is a number other than 0.
Invertible(m) == LET d == det(m) IN IsFinite(d) /\ d[1] # 0

\* Every entry of both matrices of T is a finite number.
FiniteTransform(T) == AllFinite(T.matrix) /\ AllFinite(T.inverse_transpose)

\* The stored inverse transpose is the transpose of the inverse of the matrix.
HoldsInvariant(T) == T.inverse_transpose = transpose(MatInverse(T.matrix))

\* s, t, n have unit length and are pairwise orthogonal.
Orthonormal(f) ==
    /\ dot(f.s, f.s) = R(1) /\ dot(f.t, f.t) = R(1) /\ dot(f.n, f.n) = R(1)
    /\ dot(f.s, f.t) = R(0) /\ dot(f.s, f.n) = R(0) /\ dot(f.t, f.n) = R(0)

\* The named transform a chain entry stands for, as built on a fresh
\* Transform4f(): mi.Transform4f().op(args).
Named(c) ==
    Chained(Transform4f,
        CASE c.op = "translate"    -> translate(c.args)
          [] c.op = "scale"        -> scale(c.args)
          [] c.op = "rotate"       -> rotate(c.args.axis, c.args.angle)
          [] c.op = "look_at"      -> look_at(c.args.origin, c.args.target, c.args.up)
          [] c.op = "orthographic" -> orthographic(c.args.near, c.args.far)
          [] c.op = "to_frame"     -> to_frame(c.args))

\* Named(c1) @ (Named(c2) @ (... @ Named(cn))).
RECURSIVE ChainProduct(_)
ChainProduct(c) ==
    IF Len(c) = 0 THEN Transform4f
    ELSE IF Len(c) = 1 THEN Named(c[1])
    ELSE matmul(Named(c[1]), ChainProduct(Tail(c)))

\* The chain consists of the two calls op1 and op2, in this order.
IsChain2(op1, op2) == Len(chain) = 2 /\ chain[1].op = op1 /\ chain[2].op = op2

\* Standalone transforms used as a third operand.
Thirds == {translate(V3(1, 0, 0)), matmul(rotate(V3(0, 1, 0), 90), scale(V3(1, 2, 3)))}

\* C1 (as claimed): every Transform that the operations produce stores
\* inverse_transpose = transpose(inverse(matrix)).
C1_InverseTransposeInvariant ==
    /\ HoldsInvariant(trafo)
    /\ HoldsInvariant(S)
    /\ HoldsInvariant(ptrafo)

\* C2 (as claimed): transforms compose right to left, (A @ B) @ x =
\* A @ (B @ x) for all transforms A and B and every vector, point and normal
\* x, T @ S with S a scale and T a translation scales first and translates
\* second, and @ is associative on transforms.
C2_RightToLeft ==
    LET AB == matmul(S, trafo)
    IN  /\ \A k \in Kinds, x \in Coords :
              Apply(AB, k, x) = Apply(S, k, Apply(trafo, k, x))
        /\ \A C \in Thirds : matmul(AB, C) = matmul(S, matmul(trafo, C))
        /\ \A d \in Deltas, f \in Factors :
              (S = translate(d) /\ trafo = scale(f)) =>
                  \A x \in Coords :
                      TransformPoint(AB, x) =
                          Tup(3, LAMBDA i : RAdd(RMul(Vector3f(f)[i], x[i]), d[i]))

\* C2 (amended): the same for all transforms A and B whose matrix and
\* inverse transpose have only finite entries: (A @ B) @ x = A @ (B @ x) for
\* every vector, point and normal x, T @ S with S a scale and T a translation
\* scales first and translates second, and @ is associative on such
\* transforms.  (The inverse transpose of a transform made from a singular
\* matrix holds infinities, and infinity * 0 is NaN in a product.)
C2_RightToLeftFinite ==
    (FiniteTransform(S) /\ FiniteTransform(trafo)) =>
        LET AB == matmul(S, trafo)
        IN  /\ \A k \in Kinds, x \in Coords :
                  Apply(AB, k, x) = Apply(S, k, Apply(trafo, k, x))
            /\ \A C \in Thirds : matmul(AB, C) = matmul(S, matmul(trafo, C))
            /\ \A d \in Deltas, f \in Factors :
                  (S = translate(d) /\ trafo = scale(f)) =>
                      \A x \in Coords :
                          TransformPoint(AB, x) =
                              Tup(3, LAMBDA i : RAdd(RMul(Vector3f(f)[i], x[i]), d[i]))

\* C2 witness: t = translate([0,1,2]) @ scale([1,2,3]) of cell 12 has been
\* composed, and sends the point [3,4,5] to [3,9,17].
C2_Witness ==
    /\ S = translate(V3(0, 1, 2))
    /\ trafo = matmul(S, scale(V3(1, 2, 3)))
    /\ base = trafo
    /\ chain = <<>>
    /\ TransformPoint(trafo, V3(3, 4, 5)) = V3(3, 9, 17)

Cell14Matrix ==
    << <<R(2), R(0), R(0), R(2)>>,
       <<R(0), R(2), R(0), R(0)>>,
       <<R(0), R(0), R(2), R(0)>>,
       <<R(0), R(0), R(0), R(1)>> >>

Cell14InverseTranspose ==
    << <<Rat(1, 2), R(0), R(0), R(0)>>,
       <<R(0), Rat(1, 2), R(0), R(0)>>,
       <<R(0), R(0), Rat(1, 2), R(0)>>,
       <<R(-1), R(0), R(0), R(1)>> >>

C4_ChainIsTranslateTimesScale ==
    (base = Transform4f /\ IsChain2("scale", "translate")) =>
        trafo.matrix = MatMul(translate(chain[2].args).matrix, scale(chain[1].args).matrix)

\* C4 (amended): Transform4f().scale(s).translate(d) has the matrix
\* scale(s).matrix @ translate(d).matrix, the first call being the left factor;
\* its last column is the scaled delta.
C4_ChainIsScaleTimesTranslate ==
    (base = Transform4f /\ IsChain2("scale", "translate")) =>
        LET f == Vector3f(chain[1].args)
            d == chain[2].args
        IN  /\ trafo.matrix = MatMul(scale(f).matrix, translate(d).matrix)
            /\ Col(trafo.matrix, 4) =
                  <<RMul(f[1], d[1]), RMul(f[2], d[2]), RMul(f[3], d[3]), R(1)>>

\* C4 witness: the chain of cell 14, whose matrix has 2 (not 1) in the last
\* column.
C4_Witness ==
    /\ base = Transform4f
    /\ IsChain2("scale", "translate")
    /\ chain[1].args = <<R(2)>>
    /\ chain[2].args = V3(1, 0, 0)
    /\ trafo.matrix = Cell14Matrix
    /\ trafo.matrix[1][4] = R(2)

\* What cell 12 documents for T = translate(d) @ scale(f) applied to x.
Cell12Expected(kind, d, f, x) ==
    CASE kind = "vector" -> <<RMul(f[1], x[1]), RMul(f[2], x[2]), RMul(f[3], x[3])>>
      [] kind = "point"  -> <<RAdd(RMul(f[1], x[1]), d[1]), RAdd(RMul(f[2], x[2]), d[2]),
                              RAdd(RMul(f[3], x[3]), d[3])>>
      [] kind = "normal" -> <<RDiv(x[1], f[1]), RDiv(x[2], f[2]), RDiv(x[3], f[3])>>

\* C5: @ dispatches on the kind of the operand.  For T = translate(d) @
\* scale(s): a vector gets the linear part only (s * v), a point the full
\* homogeneous product (s * p + d), a normal the inverse transpose (n / s);
\* and a pure translation leaves vectors and normals unchanged.
C5_DispatchOnKind ==
    /\ \A d \in Deltas, f \in Factors :
          (last.kind \in Kinds /\ last.by = matmul(translate(d), scale(f))) =>
              last.res = Cell12Expected(last.kind, d, Vector3f(f), last.arg)
    /\ \A d \in Deltas :
          (last.kind \in {"vector", "normal"} /\ last.by = translate(d)) =>
              last.res = last.arg

\* C5 witness: cell 12 has printed t @ p = [3, 9, 17] for
\* t = translate([0,1,2]) @ scale([1,2,3]) and p = [3, 4, 5].
C5_Witness ==
    /\ last.kind = "point"
    /\ last.by = matmul(translate(V3(0, 1, 2)), scale(V3(1, 2, 3)))
    /\ last.arg = V3(3, 4, 5)
    /\ last.res = V3(3, 9, 17)

\* C6 (as claimed): for every invertible T, T.inverse() has the matrix
\* inverse(T.matrix) and the inverse transpose transpose(T.matrix), T @
\* T.inverse() and T.inverse() @ T are the identity, and T.inverse().inverse()
\* is T.
C6_InverseLaw ==
    Invertible(trafo.matrix) =>
        LET I == inverse(trafo)
        IN  /\ I.matrix = MatInverse(trafo.matrix)
            /\ I.inverse_transpose = transpose(trafo.matrix)
            /\ matmul(trafo, I) = Transform4f
            /\ matmul(I, trafo) = Transform4f
            /\ inverse(I) = trafo

\* C7 (as claimed): the default-constructed Transform4f is the identity in
\* both matrices, leaves every point, vector and normal unchanged, and is a
\* left and right unit of @ for every transform.
C7_IdentityLaw ==
    /\ (base = Transform4f /\ chain = <<>>) =>
          (trafo.matrix = Identity(4) /\ trafo.inverse_transpose = Identity(4))
    /\ \A k \in Kinds, x \in Coords : Apply(Transform4f, k, x) = x
    /\ matmul(Transform4f, trafo) = trafo /\ matmul(trafo, Transform4f) = trafo
    /\ matmul(Transform4f, S) = S /\ matmul(S, Transform4f) = S

\* C7 (amended): the default-constructed Transform4f is the identity in both
\* matrices, leaves every point, vector and normal unchanged, and is a left
\* and right unit of @ for every transform whose matrix and inverse
\* transpose have only finite entries.
C7_IdentityLawFinite ==
    /\ (base = Transform4f /\ chain = <<>>) =>
          (trafo.matrix = Identity(4) /\ trafo.inverse_transpose = Identity(4))
    /\ \A k \in Kinds, x \in Coords : Apply(Transform4f, k, x) = x
    /\ FiniteTransform(trafo) =>
          (matmul(Transform4f, trafo) = trafo /\ matmul(trafo, Transform4f) = trafo)
    /\ FiniteTransform(S) =>
          (matmul(Transform4f, S) = S /\ matmul(S, Transform4f) = S)

\* C7 witness: a transform that is not the identity has been built and
\* stored, and the transform under construction is a fresh Transform4f().
C7_Witness ==
    /\ pending
    /\ S = matmul(translate(V3(0, 1, 2)), scale(V3(1, 2, 3)))
    /\ trafo.matrix = Identity(4)
    /\ chain = <<>>

C9_NormalLaw ==
    Invertible(trafo.matrix) =>
        \A n \in Coords, v \in Coords :
            dot(TransformNormal(trafo, n), TransformVector(trafo, v)) = dot(n, v)

\* C10 (as claimed): to_frame(frame) acts on every vector as frame.to_local,
\* its upper-left rows being s, t, n.
C10_ToFrameIsToLocal ==
    (base = Transform4f /\ Len(chain) = 1 /\ chain[1].op = "to_frame") =>
        /\ Sub3(trafo.matrix) = <<chain[1].args.s, chain[1].args.t, chain[1].args.n>>
        /\ \A v \in Coords : TransformVector(trafo, v) = to_local(chain[1].args, v)

\* C11: T @ ray is the ray with origin T @ Point(o) and direction T @
\* Vector(d); under translate(delta) the origin moves by delta and the
\* direction is unchanged; and (A @ B) @ ray = A @ (B @ ray).
C11_RayLaw ==
    /\ last.kind = "ray" =>
          /\ last.res.o = TransformPoint(last.by, last.arg.o)
          /\ last.res.d = TransformVector(last.by, last.arg.d)
          /\ \A d \in Deltas :
                last.by = translate(d) =>
                    /\ last.res.o = Tup(3, LAMBDA i : RAdd(last.arg.o[i], d[i]))
                    /\ last.res.d = last.arg.d
          /\ TransformRay(matmul(S, last.by), last.arg) = TransformRay(S, last.res)

\* C11 witness: the ray with origin [3,4,5] and direction [1,-1,0] has been
\* transformed by translate([0,1,2]): the origin is [3,5,7], the direction is
\* unchanged.
C11_Witness ==
    /\ last.kind = "ray"
    /\ last.by = translate(V3(0, 1, 2))
    /\ last.arg = Ray3f(V3(3, 4, 5), V3(1, -1, 0))
    /\ last.res = Ray3f(V3(3, 5, 7), V3(1, -1, 0))

\* The chain consists of the single call op on a fresh Transform4f().
IsChain1(op) == base = Transform4f /\ Len(chain) = 1 /\ chain[1].op = op

\* The transform printed by cell 5 for translate([10, 20, 30]).
Cell5Matrix ==
    << <<R(1), R(0), R(0), R(10)>>,
       <<R(0), R(1), R(0), R(20)>>,
       <<R(0), R(0), R(1), R(30)>>,
       <<R(0), R(0), R(0), R(1)>> >>

Cell5InverseTranspose ==
    << <<R(1), R(0), R(0), R(0)>>,
       <<R(0), R(1), R(0), R(0)>>,
       <<R(0), R(0), R(1), R(0)>>,
       <<R(-10), R(-20), R(-30), R(1)>> >>

\* C12: Transform4f().translate(delta) has the identity matrix with delta in
\* the last column, and as inverse transpose the identity with -delta in the
\* last row; translate([10,20,30]) is the transform that cell 5 prints.
C12_TranslateMatrices ==
    /\ IsChain1("translate") =>
          LET d == chain[1].args
          IN  /\ trafo.matrix =
                    Tup(4, LAMBDA i : Tup(4, LAMBDA j :
                        IF j = 4 /\ i < 4 THEN d[i]
                        ELSE IF i = j THEN R(1) ELSE R(0)))
              /\ trafo.inverse_transpose =
                    Tup(4, LAMBDA i : Tup(4, LAMBDA j :
                        IF i = 4 /\ j < 4 THEN RNeg(d[j])
                        ELSE IF i = j THEN R(1) ELSE R(0)))
    /\ translate(V3(10, 20, 30)) = Transform(Cell5Matrix, Cell5InverseTranspose)

\* C12 witness: Transform4f().translate([0, 1, 2]) of cell 12 has been built;
\* its last column is (0,1,2,1) and the last row of its inverse transpose is
\* (0,-1,-2,1).
C12_Witness ==
    /\ IsChain1("translate")
    /\ chain[1].args = V3(0, 1, 2)
    /\ Col(trafo.matrix, 4) = <<R(0), R(1), R(2), R(1)>>
    /\ trafo.inverse_transpose[4] = <<R(0), R(-1), R(-2), R(1)>>

\* The transform printed by cell 6 for scale([10, 20, 30]).
Cell6Matrix ==
    << <<R(10), R(0), R(0), R(0)>>,
       <<R(0), R(20), R(0), R(0)>>,
       <<R(0), R(0), R(30), R(0)>>,
       <<R(0), R(0), R(0), R(1)>> >>

Cell6InverseTranspose ==
    << <<Rat(1, 10), R(0), R(0), R(0)>>,
       <<R(0), Rat(1, 20), R(0), R(0)>>,
       <<R(0), R(0), Rat(1, 30), R(0)>>,
       <<R(0), R(0), R(0), R(1)>> >>

\* diag(a, b, c, 1).
Diag(a, b, c) ==
    Tup(4, LAMBDA i : Tup(4, LAMBDA j :
        IF i # j THEN R(0)
        ELSE IF i = 1 THEN a ELSE IF i = 2 THEN b ELSE IF i = 3 THEN c ELSE R(1)))

\* C13: Transform4f().scale(factor) has the matrix diag(fx, fy, fz, 1) and the
\* inverse transpose diag(1/fx, 1/fy, 1/fz, 1); a scalar factor c stands for
\* (c, c, c) and leaves the homogeneous entry 1; scale([10,20,30]) is the
\* transform that cell 6 prints.
C13_ScaleMatrices ==
    /\ IsChain1("scale") =>
          LET a == chain[1].args
              f == IF Len(a) = 1 THEN <<a[1], a[1], a[1]>> ELSE a
          IN  /\ trafo.matrix = Diag(f[1], f[2], f[3])
              /\ trafo.inverse_transpose =
                    Diag(RDiv(R(1), f[1]), RDiv(R(1), f[2]), RDiv(R(1), f[3]))
              /\ trafo.matrix[4][4] = R(1)
    /\ scale(V3(10, 20, 30)) = Transform(Cell6Matrix, Cell6InverseTranspose)

\* C13 witness: Transform4f().scale(2.0) of cell 13 has been built: it is
\* diag(2, 2, 2, 1) with inverse transpose diag(1/2, 1/2, 1/2, 1).
C13_Witness ==
    /\ IsChain1("scale")
    /\ chain[1].args = <<R(2)>>
    /\ trafo.matrix = Diag(R(2), R(2), R(2))
    /\ trafo.inverse_transpose = Diag(Rat(1, 2), Rat(1, 2), Rat(1, 2))

\* C15: for an orthonormal frame F, F.to_world(F.to_local(v)) = v and
\* F.to_local(F.to_world(v)) = v: a conversion applied to the result of the
\* opposite conversion by the same frame gives back the original vector.
C15_FrameRoundTrip ==
    [][/\ (ToWorld /\ last.kind = "to_local" /\ last.by = frame
            /\ last'.arg = last.res /\ Orthonormal(frame)) => last'.res = last.arg
       /\ (ToLocal /\ last.kind = "to_world" /\ last.by = frame
            /\ last'.arg = last.res /\ Orthonormal(frame)) => last'.res = last.arg]_vars

\* C15 witness: with the orthonormal frame s = [0,1,0], t = [0,0,1],
\* n = [1,0,0], the local vector [4,5,3] = to_local([3,4,5]) has been converted
\* back to the world vector [3,4,5].
C15_Witness ==
    /\ last.kind = "to_world"
    /\ last.by = Frame3f(V3(0, 1, 0), V3(0, 0, 1), V3(1, 0, 0))
    /\ last.arg = V3(4, 5, 3)
    /\ last.arg = to_local(last.by, V3(3, 4, 5))
    /\ last.res = V3(3, 4, 5)

\* C16: Frame3f(n) for a unit vector n stores n as given and derives s and t
\* so that s, t, n have unit length, are pairwise orthogonal and right-handed
\* (n = s x t), also for n along an axis; Frame3f([0, 1, 0]) is the frame that
\* cell 2 prints.
C16_FrameFromNormal ==
    [][FrameFromNormal =>
          /\ last'.arg \in Normals
          /\ frame'.n = last'.arg
          /\ Orthonormal(frame')
          /\ cross(frame'.s, frame'.t) = frame'.n
          /\ \A n \in Normals : n = last'.arg => frame' = Frame3f_from_normal(n)
          /\ Frame3f_from_normal(V3(0, 1, 0)) =
                [s |-> V3(1, 0, 0), t |-> V3(0, 0, -1), n |-> V3(0, 1, 0)]]_vars

\* C16 witness: Frame3f([0, 0, -1]) has been built: s = [1,0,0], t = [0,-1,0],
\* and s x t = n.
C16_Witness ==
    /\ last.kind = "Frame3f(n)"
    /\ last.arg = V3(0, 0, -1)
    /\ frame = [s |-> V3(1, 0, 0), t |-> V3(0, -1, 0), n |-> V3(0, 0, -1)]
    /\ cross(frame.s, frame.t) = V3(0, 0, -1)

\* C17: Frame3f(s, t, n) stores the three vectors as given, without
\* normalizing or reordering them, and to_local(v) is (v.s, v.t, v.n) with the
\* stored vectors; with s = [0,0,1], t = [0,1,0], n = [1,0,0] the vector
\* [3,2,1] becomes [1,2,3].
C17_ToLocalAsStored ==
    [][/\ FrameFromVectors =>
             /\ \E f \in Frames : last'.arg = <<f.s, f.t, f.n>>
             /\ <<frame'.s, frame'.t, frame'.n>> = last'.arg
       /\ ToLocal =>
             /\ last'.by = frame
             /\ last'.res = <<dot(last'.arg, frame.s), dot(last'.arg, frame.t),
                              dot(last'.arg, frame.n)>>
             /\ (frame.s = V3(0, 0, 1) /\ frame.t = V3(0, 1, 0) /\ frame.n = V3(1, 0, 0)
                 /\ last'.arg = V3(3, 2, 1)) => last'.res = V3(1, 2, 3)]_vars

\* C17 witness: cell 3 has been run: the frame s = [0,0,1], t = [0,1,0],
\* n = [1,0,0] has converted [3,2,1] to [1,2,3].
C17_Witness ==
    /\ last.kind = "to_local"
    /\ last.by = [s |-> V3(0, 0, 1), t |-> V3(0, 1, 0), n |-> V3(1, 0, 0)]
    /\ last.arg = V3(3, 2, 1)
    /\ last.res = V3(1, 2, 3)

\* C18: ProjectiveTransform4f().perspective(fov, near, far) applied to a point,
\* with the division by the homogeneous coordinate, sends a point with
\* z = near to depth 0 and a point with z = far to depth 1, and for fov = 90
\* sends (x, y, z) to (x/z, y/z, far (z - near) / (z (far - near))); with
\* near = 0.1, far = 10 the point (2, -2, 2) goes to (1, -1, 95/99).
C18_PerspectiveDepth ==
    \A c \in ProjClips :
        (last.kind = "project"
         /\ last.by = Chained(Transform4f, perspective(90, c.near, c.far))) =>
            LET x == last.arg[1]
                y == last.arg[2]
                z == last.arg[3]
                depth == RDiv(RMul(c.far, RSub(z, c.near)),
                              RMul(z, RSub(c.far, c.near)))
            IN  /\ last.res = <<RDiv(x, z), RDiv(y, z), depth>>
                /\ z = c.near => last.res[3] = R(0)
                /\ z = c.far => last.res[3] = R(1)

\* C18 witness: cell 9 has been run: perspective(fov=90, near=0.1, far=10)
\* has sent the point (2, -2, 2) to (1, -1, 95/99).
C18_Witness ==
    /\ last.kind = "project"
    /\ last.by.matrix = perspective(90, Rat(1, 10), R(10)).matrix
    /\ last.arg = V3(2, -2, 2)
    /\ last.res = <<R(1), R(-1), Rat(95, 99)>>

\* Points given to an orthographic transform: [1, 2, 3] (cell 10), [3, 4, 5]
\* (cell 12), and points on the near planes.
OrthoPoints == {V3(1, 2, 3), V3(3, 4, 5), V3(1, 1, 1), <<R(2), R(-2), Rat(1, 10)>>, V3(3, 4, 10)}

\* What C19 states for the point p and the clipping planes c.
OrthoExpected(c, p) == <<p[1], p[2], RDiv(RSub(p[3], c.near), RSub(c.far, c.near))>>

\* C19: Transform4f().orthographic(near, far) sends the point (x, y, z) to
\* (x, y, (z - near) / (far - near)): x and y are unchanged, z = near goes to
\* 0, z = far goes to 1; with near = 0.1, far = 10 the point (1, 2, 3) goes to
\* (1, 2, 29/99).
C19_OrthographicDepth ==
    (last.kind = "point" /\ IsChain1("orthographic") /\ last.by = trafo) =>
        /\ \A c \in Clips :
              chain[1].args = c =>
                  /\ last.res = OrthoExpected(c, last.arg)
                  /\ \A p \in OrthoPoints :
                        LET q == TransformPoint(trafo, p)
                        IN  /\ q = OrthoExpected(c, p)
                            /\ p[3] = c.near => q[3] = R(0)
                            /\ p[3] = c.far => q[3] = R(1)
        /\ \A p \in OrthoPoints :
              TransformPoint(orthographic(NotebookClip.near, NotebookClip.far), p) =
                  OrthoExpected(NotebookClip, p)
        /\ TransformPoint(orthographic(Rat(1, 10), R(10)), V3(1, 2, 3)) =
              <<R(1), R(2), Rat(29, 99)>>

\* C19 witness: Transform4f().orthographic(near=1, far=3) has been applied to
\* the point [3, 4, 5] and has given [3, 4, 2].
C19_Witness ==
    /\ last.kind = "point"
    /\ IsChain1("orthographic")
    /\ last.by = trafo
    /\ last.arg = V3(3, 4, 5)
    /\ last.res = V3(3, 4, 2)

\* look_at arguments off the axes: forward is (0, 3/5, 4/5).
MoreLookAts == {[origin |-> V3(1, 2, 3), target |-> V3(1, 5, 7), up |-> V3(1, 0, 0)]}

\* What C20 states for the transform T built by look_at with the arguments l.
LookAtLaw(T, l) ==
    LET forward == normalize(VSub(l.target, l.origin))
        right   == normalize(cross(l.up, forward))
        new_up  == cross(forward, right)
        lin     == Sub3(T.matrix)
    IN  /\ Col(T.matrix, 1) = <<right[1], right[2], right[3], R(0)>>
        /\ Col(T.matrix, 2) = <<new_up[1], new_up[2], new_up[3], R(0)>>
        /\ Col(T.matrix, 3) = <<forward[1], forward[2], forward[3], R(0)>>
        /\ Col(T.matrix, 4) = <<l.origin[1], l.origin[2], l.origin[3], R(1)>>
        /\ TransformPoint(T, V3(0, 0, 0)) = l.origin
        /\ TransformVector(T, V3(0, 0, 1)) = forward
        /\ MatMul(transpose(lin), lin) = Identity(3)

\* C20: Transform4f().look_at(origin, target, up) has the matrix columns
\* right = normalize(cross(up, forward)), cross(forward, right),
\* forward = normalize(target - origin) and origin; it sends the point (0,0,0)
\* to origin and the vector (0,0,1) to forward, and its linear part is
\* orthonormal; the arguments of cell 8 give the columns (-1,0,0), (0,1,0),
\* (0,0,-1), (0,0,2).
C20_LookAtColumns ==
    IsChain1("look_at") =>
        /\ \A l \in LookAts : chain[1].args = l => LookAtLaw(trafo, l)
        /\ \A l \in MoreLookAts : LookAtLaw(look_at(l.origin, l.target, l.up), l)
        /\ chain[1].args = [origin |-> V3(0, 0, 2), target |-> V3(0, 0, 0), up |-> V3(0, 1, 0)] =>
              /\ Col(trafo.matrix, 1) = <<R(-1), R(0), R(0), R(0)>>
              /\ Col(trafo.matrix, 2) = <<R(0), R(1), R(0), R(0)>>
              /\ Col(trafo.matrix, 3) = <<R(0), R(0), R(-1), R(0)>>
              /\ Col(trafo.matrix, 4) = <<R(0), R(0), R(2), R(1)>>

\* C20 witness: the look_at of cell 8 has been built; it sends the point
\* (0,0,0) to the origin (0,0,2) and the vector (0,0,1) to (0,0,-1).
C20_Witness ==
    /\ IsChain1("look_at")
    /\ chain[1].args.origin = V3(0, 0, 2)
    /\ TransformPoint(trafo, V3(0, 0, 0)) = V3(0, 0, 2)
    /\ TransformVector(trafo, V3(0, 0, 1)) = V3(0, 0, -1)

(***************************************************************************)
(* Rotations (cell 7)                                                      *)
(***************************************************************************)
\* The axes of the rotations: the coordinate axes, and an axis that is not
\* of unit length.
RotationAxes == {V3(1, 0, 0), V3(0, 1, 0), V3(0, 0, 1), V3(0, 2, 0)}

\* The angles, in degrees.
RotationAngles == {0, 90, 180, 270}

\* trafo = trafo.rotate(axis, angle), for every axis and angle above.
RotateBy ==
    /\ Running /\ nops < MaxOps
    /\ \E ax \in RotationAxes, an \in RotationAngles :
          Chain("rotate", [axis |-> ax, angle |-> an], rotate(ax, an))

\* The statements that chain rotations.
RotNext == RotateBy

RotSpec == Init /\ [][RotNext]_vars

\* Every call of the chain c turns about the direction of the axis ax.
RECURSIVE SameAxis(_, _)
SameAxis(c, ax) ==
    c = <<>> \/ (normalize(c[1].args.axis) = normalize(ax) /\ SameAxis(Tail(c), ax))

\* The sum of the angles of the chain c.
RECURSIVE AngleSum(_)
AngleSum(c) == IF c = <<>> THEN 0 ELSE c[1].args.angle + AngleSum(Tail(c))

\* The coordinate axis that follows the axis e in the order x, y, z, x.
NextAxis(e) == <<e[3], e[1], e[2]>>

\* C21: rotate(axis, angle) is a right-handed rotation about the normalized
\* axis by an angle in degrees: the inverse transpose of a rotation is its
\* matrix, rotate(axis, 0) is the identity, a chain of rotations about one
\* axis is the rotation by the sum of the angles, a quarter turn about a
\* coordinate axis takes the next axis to the one after it, and
\* rotate((0,1,0), 90) takes the vector (1,0,0) to (0,0,-1) and (0,0,1) to
\* (1,0,0).
C21_RotateLaw ==
    /\ trafo.inverse_transpose = trafo.matrix
    /\ chain # <<>> =>
          LET r == chain[Len(chain)].args
              u == normalize(r.axis)
          IN  /\ rotate(r.axis, 0) = Transform4f
              /\ SameAxis(chain, r.axis) => trafo = rotate(r.axis, AngleSum(chain))
              /\ (Len(chain) = 1 /\ r.angle = 90) =>
                    /\ TransformVector(trafo, NextAxis(u)) = NextAxis(NextAxis(u))
                    /\ TransformVector(trafo, u) = u
              /\ (Len(chain) = 1 /\ r = [axis |-> V3(0, 1, 0), angle |-> 90]) =>
                    /\ TransformVector(trafo, V3(1, 0, 0)) = V3(0, 0, -1)
                    /\ TransformVector(trafo, V3(0, 0, 1)) = V3(1, 0, 0)

\* Two quarter turns about the y axis, one given with an axis of length 2,
\* make the half turn.
C21_Witness ==
    /\ chain = << [op |-> "rotate", args |-> [axis |-> V3(0, 1, 0), angle |-> 90]],
                  [op |-> "rotate", args |-> [axis |-> V3(0, 2, 0), angle |-> 90]] >>
    /\ trafo = rotate(V3(0, 1, 0), 180)
    /\ TransformVector(trafo, V3(1, 0, 0)) = V3(-1, 0, 0)

(***************************************************************************)
(* The bottom row of the matrix                                            *)
(***************************************************************************)
\* The statements that build an affine transform from the identity: all of
\* Next but the construction from a given matrix.
AffineNext ==
    \/ New
    \/ Translate
    \/ Scale
    \/ Rotate
    \/ LookAt
    \/ Orthographic
    \/ ToFrame
    \/ Inverse
    \/ Store
    \/ Compose

\* The affine statements, and perspective on the projective variant.
BuildNext == AffineNext \/ Perspective

BuildSpec == Init /\ [][BuildNext]_vars

\* The last row of an affine matrix.
AffineRow == <<R(0), R(0), R(0), R(1)>>

\* The homogeneous coordinate of the point p after T.
Homogeneous(T, p) == MatVec(T.matrix, <<p[1], p[2], p[3], R(1)>>)[4]

\* C23: every transform built from the identity by translate, scale, rotate,
\* look_at, orthographic, to_frame, inverse and @ has the bottom row
\* [0, 0, 0, 1], so a point it is applied to keeps the homogeneous
\* coordinate 1 and the perspective divide leaves the result as it is; a
\* transform built with perspective does not have that bottom row.
C23_BottomRow ==
    /\ trafo.matrix[4] = AffineRow
    /\ S.matrix[4] = AffineRow
    /\ \A p \in Coords :
          /\ Homogeneous(trafo, p) = R(1)
          /\ ProjectPoint(trafo, p) = TransformPoint(trafo, p)
    /\ ptrafo # Transform4f => ptrafo.matrix[4] # AffineRow

\* The inverse of the notebook's look_at (cell 8), next to a perspective
\* transform (cell 9).
C23_Witness ==
    /\ \E l \in LookAts : trafo = inverse(look_at(l.origin, l.target, l.up))
    /\ trafo.matrix # Identity(4)
    /\ trafo.matrix[4] = AffineRow
    /\ ptrafo = perspective(90, NotebookClip.near, NotebookClip.far)
    /\ ptrafo.matrix[4] = <<R(0), R(0), R(1), R(0)>>

(***************************************************************************)
(* ProjectiveTransform4f next to Transform4f (cell 9's note)               *)
(***************************************************************************)
\* T = mi.Transform4f(m); P = mi.ProjectiveTransform4f(m): the two variants
\* built from the same affine matrix.
BothFromMatrix ==
    /\ Running /\ nops < MaxOps
    /\ \E m \in Matrices :
          /\ trafo' = from_matrix(m)
          /\ ptrafo' = from_matrix(m)
    /\ nops' = nops + 1
    /\ UNCHANGED <<base, chain, S, pending, frame, last>>

\* T = T.op(args); P = P.op(args)
Both(named) ==
    /\ trafo' = Chained(trafo, named)
    /\ ptrafo' = Chained(ptrafo, named)

\* The same fluent call on both variants.
BothChain ==
    /\ Running /\ nops < MaxOps
    /\ \/ \E d \in Deltas : Both(translate(d))
       \/ \E f \in Factors : Both(scale(f))
       \/ \E r \in Rotations : Both(rotate(r.axis, r.angle))
       \/ \E l \in LookAts : Both(look_at(l.origin, l.target, l.up))
       \/ \E c \in Clips : Both(orthographic(c.near, c.far))
       \/ \E f \in Frames : Both(to_frame(Frame3f(f.s, f.t, f.n)))
    /\ nops' = nops + 1
    /\ UNCHANGED <<base, chain, S, pending, frame, last>>

\* T = T.inverse(); P = P.inverse()
BothInverse ==
    /\ Running /\ nops < MaxOps
    /\ trafo' = inverse(trafo)
    /\ ptrafo' = inverse(ptrafo)
    /\ nops' = nops + 1
    /\ UNCHANGED <<base, chain, S, pending, frame, last>>

\* T = C @ T; P = C @ P for a transform C built on its own.
BothCompose ==
    /\ Running /\ nops < MaxOps
    /\ \E C \in Thirds :
          /\ trafo' = matmul(C, trafo)
          /\ ptrafo' = matmul(C, ptrafo)
    /\ nops' = nops + 1
    /\ UNCHANGED <<base, chain, S, pending, frame, last>>

\* print(T @ x) for a vector, point, normal or ray x: the last statement of a
\* run; the result of the affine variant is kept.
BothApply ==
    /\ Running
    /\ \/ \E k \in Kinds, x \in Coords :
             last' = [kind |-> k, by |-> trafo, arg |-> x, res |-> Apply(trafo, k, x)]
       \/ \E r \in Rays :
             last' = [kind |-> "ray", by |-> trafo, arg |-> r, res |-> TransformRay(trafo, r)]
    /\ UNCHANGED <<trafo, base, chain, S, pending, frame, ptrafo, nops>>

VariantNext ==
    \/ BothFromMatrix
    \/ BothChain
    \/ BothInverse
    \/ BothCompose
    \/ BothApply

\* The affine statements made on both variants, followed by one application.
VariantSpec == Init /\ [][VariantNext]_vars

RightHanded(f) == cross(f.s, f.t) = f.n

\* C24: every Frame3f, from whichever constructor, has unit vectors that are
\* pairwise orthogonal and right-handed (n = s x t).
C24_FrameInvariant == Orthonormal(frame) /\ RightHanded(frame)

(***************************************************************************)
(* Transform3f(value), Transform4f(value): the accepted values (cell 4)    *)
(***************************************************************************)
\* The kinds of value that hold a full grid.
GridTypes == {"ndarray", "Matrix", "list"}

\* np.array(rows): the shape and the entries in row-major order.
ndarray(rows) ==
    LET n == Len(rows)
    IN  [type |-> "ndarray",
         data |-> [shape |-> <<n, n>>,
                   flat  |-> [k \in 1..(n * n) |-> rows[((k - 1) \div n) + 1][((k - 1) % n) + 1]]]]

\* mi.Matrix3f(rows), mi.Matrix4f(rows): the entries as numbers of the variant.
Matrixf(rows) ==
    [type |-> "Matrix",
     data |-> Tup(Len(rows), LAMBDA i : Tup(Len(rows), LAMBDA j : R(rows[i][j])))]

\* A nested Python list.
NestedList(rows) == [type |-> "list", data |-> rows]

\* A Python number.
Scalar(c) == [type |-> "scalar", data |-> c]

\* A Python list of n numbers.
FlatList(v) == [type |-> "vector", data |-> v]

\* The value of type ty that holds the grid rows.
AsValue(ty, rows) ==
    CASE ty = "ndarray" -> ndarray(rows)
      [] ty = "Matrix"  -> Matrixf(rows)
      [] ty = "list"    -> NestedList(rows)

\* A matrix that broadcasts a list of n numbers along the rows.
MatrixFrom_along_rows(x, n) ==
    CASE x.type = "ndarray" ->
             Tup(n, LAMBDA i : Tup(n, LAMBDA j : R(x.data.flat[(i - 1) * x.data.shape[2] + j])))
      [] x.type = "Matrix"  -> x.data
      [] x.type = "list"    -> Tup(n, LAMBDA i : Tup(n, LAMBDA j : R(x.data[i][j])))
      [] x.type = "scalar"  ->
             Tup(n, LAMBDA i : Tup(n, LAMBDA j : IF i = j THEN R(x.data) ELSE R(0)))
      [] x.type = "vector"  -> Tup(n, LAMBDA i : Tup(n, LAMBDA j : R(x.data[j])))

\* The n x n matrix that Transform3f(x), Transform4f(x) make of the value x:
\* a grid entry by entry, a number on the diagonal, a list of n numbers
\* broadcast over the columns (entry [i][j] is x[i]).
MatrixFrom(x, n) ==
    CASE x.type = "ndarray" ->
             Tup(n, LAMBDA i : Tup(n, LAMBDA j : R(x.data.flat[(i - 1) * x.data.shape[2] + j])))
      [] x.type = "Matrix"  -> x.data
      [] x.type = "list"    -> Tup(n, LAMBDA i : Tup(n, LAMBDA j : R(x.data[i][j])))
      [] x.type = "scalar"  ->
             Tup(n, LAMBDA i : Tup(n, LAMBDA j : IF i = j THEN R(x.data) ELSE R(0)))
      [] x.type = "vector"  -> Tup(n, LAMBDA i : Tup(n, LAMBDA j : R(x.data[i])))

\* mi.Transform3f(x) (n = 3), mi.Transform4f(x) (n = 4).
TransformFrom(x, n) == from_matrix(MatrixFrom(x, n))

\* The dimensions of Transform3f and Transform4f.
Dims == {3, 4}

\* The grids: cell 4's, and others with and without an inverse.
Grids(n) ==
    IF n = 3
    THEN { << <<1, 2, 3>>, <<4, 5, 6>>, <<7, 8, 9>> >>,
           << <<2, 0, 0>>, <<0, 1, 0>>, <<1, 0, 1>> >> }
    ELSE { << <<1, 0, 0, 1>>, <<0, 1, 0, 2>>, <<0, 0, 1, 3>>, <<0, 0, 0, 1>> >>,
           << <<1, 2, 3, 4>>, <<5, 6, 7, 8>>, <<9, 10, 11, 12>>, <<13, 14, 15, 16>> >>,
           << <<1, 2, 3, 0>>, <<4, 5, 6, 0>>, <<7, 8, 9, 0>>, <<0, 0, 0, 1>> >> }

\* The numbers: cell 4's 3, and 2 and 0.
Scalars == {3, 2, 0}

\* The lists of n numbers: cell 4's [3, 2, 3].
Rows(n) == IF n = 3 THEN {<<3, 2, 3>>, <<1, 1, 1>>} ELSE {<<3, 2, 3, 1>>}

\* trafo = mi.Transform3f(x) or mi.Transform4f(x); chain keeps the call.
Built(x, n) ==
    /\ trafo' = TransformFrom(x, n)
    /\ base' = trafo'
    /\ chain' = << [op |-> "Transform", args |-> [value |-> x, n |-> n]] >>
    /\ nops' = nops + 1
    /\ UNCHANGED <<S, pending, frame, ptrafo, last>>

FromValue ==
    /\ Running /\ nops < MaxOps
    /\ \E n \in Dims :
          \/ \E g \in Grids(n), ty \in GridTypes : Built(AsValue(ty, g), n)
          \/ \E c \in Scalars : Built(Scalar(c), n)
          \/ \E v \in Rows(n) : Built(FlatList(v), n)

\* The constructions from a value; a transform may be kept (t_from_np, ...)
\* while the next one is built.
ValueNext == FromValue \/ Store

ValueSpec == Init /\ [][ValueNext]_vars

\* c times the n x n identity matrix.
ScaledIdentity(c, n) ==
    Tup(n, LAMBDA i : Tup(n, LAMBDA j : IF i = j THEN c ELSE R(0)))

\* C25: Transform3f(x) and Transform4f(x) normalise their argument: a grid
\* gives the same transform whether it is a numpy array, a Matrix or a nested
\* list; a number c gives the matrix c*I, with inverse transpose (1/c)*I when
\* c is not 0; a list v of n numbers gives the matrix whose entry [i][j] is
\* v[i], which is singular, so that [3, 2, 3] gives the rows [3, 3, 3],
\* [2, 2, 2], [3, 3, 3] and an inverse transpose of NaN.
C25_Broadcast ==
    (Len(chain) = 1 /\ chain[1].op = "Transform") =>
        LET x == chain[1].args.value
            n == chain[1].args.n
        IN  /\ x.type \in GridTypes =>
                  \E g \in Grids(n) :
                      /\ x = AsValue(x.type, g)
                      /\ \A ty \in GridTypes : TransformFrom(AsValue(ty, g), n) = trafo
                      /\ \A i, j \in 1..n : trafo.matrix[i][j] = R(g[i][j])
            /\ x.type = "scalar" =>
                  /\ trafo.matrix = ScaledIdentity(R(x.data), n)
                  /\ trafo.inverse_transpose =
                        IF x.data = 0 THEN AllNaN(n) ELSE ScaledIdentity(Rat(1, x.data), n)
            /\ x.type = "vector" =>
                  /\ \A i, j \in 1..n : trafo.matrix[i][j] = R(x.data[i])
                  /\ det(trafo.matrix) = R(0)
                  /\ trafo.inverse_transpose = AllNaN(n)
                  /\ x.data = <<3, 2, 3>> => trafo.matrix = Cell4Matrix

\* t_from_row of cell 4, built while t_from_np is kept.
C25_Witness ==
    /\ S = TransformFrom(ndarray(<< <<1, 2, 3>>, <<4, 5, 6>>, <<7, 8, 9>> >>), 3)
    /\ Len(chain) = 1 /\ chain[1].op = "Transform"
    /\ chain[1].args.value = FlatList(<<3, 2, 3>>)
    /\ trafo = Transform(Cell4Matrix, AllNaN(3))

(***************************************************************************)
(* Transform3f(value), Transform4f(value) of a singular matrix (cell 4)    *)
(***************************************************************************)
\* The cofactor of the entry [i][j] of m.
Cofactor(m, i, j) == RMul(Sign(i + j), det(Minor(m, i, j)))

\* np_mat, mi_mat and list_mat of cell 4.
Cell4Grid == << <<1, 2, 3>>, <<4, 5, 6>>, <<7, 8, 9>> >>

\* The step is a statement trafo = mi.Transform3f(value) or
\* mi.Transform4f(value); chain' holds the value given.
ValueGiven == nops' = nops + 1 /\ Len(chain') = 1 /\ chain'[1].op = "Transform"

\* C14 (as claimed): Transform(value) with a singular matrix is constructed
\* all the same: the matrix is exactly the one given, every entry of the
\* inverse transpose is NaN, and nothing else changes.
C14_SingularGivesNaN ==
    [][ValueGiven =>
          LET x == chain'[1].args.value
              n == chain'[1].args.n
          IN  /\ trafo'.matrix = MatrixFrom(x, n)
              /\ x.type = "Matrix" => trafo'.matrix = x.data
              /\ det(trafo'.matrix) = R(0) =>
                    \A i \in 1..n, j \in 1..n : IsNaN(trafo'.inverse_transpose[i][j])
              /\ UNCHANGED <<S, pending, frame, ptrafo, last>>]_vars

\* C14 (amended): Transform(value) with a singular matrix is constructed all
\* the same: the matrix is exactly the one given, every entry of the inverse
\* transpose is NaN or an infinity, NaN where the cofactor of that entry of
\* the matrix is 0 and an infinity where it is not, and nothing else
\* changes; Transform3f([3, 2, 3]), all of whose cofactors are 0, is the
\* transform that cell 4 prints, with NaN throughout.
C14_SingularNonFinite ==
    [][ValueGiven =>
          LET x == chain'[1].args.value
              n == chain'[1].args.n
          IN  /\ trafo'.matrix = MatrixFrom(x, n)
              /\ x.type = "Matrix" => trafo'.matrix = x.data
              /\ AllFinite(trafo'.matrix)
              /\ det(trafo'.matrix) = R(0) =>
                    \A i \in 1..n, j \in 1..n :
                        IF Cofactor(trafo'.matrix, i, j) = R(0)
                        THEN IsNaN(trafo'.inverse_transpose[i][j])
                        ELSE IsInf(trafo'.inverse_transpose[i][j])
              /\ (x = FlatList(<<3, 2, 3>>) /\ n = 3) =>
                    trafo' = Transform(Cell4Matrix, AllNaN(3))
              /\ UNCHANGED <<S, pending, frame, ptrafo, last>>]_vars

\* C14 witness: Transform3f(np_mat) of cell 4 has been constructed: the
\* matrix is np_mat, which is singular and has no cofactor equal to 0, and
\* every entry of the inverse transpose is an infinity.
C14_Witness ==
    /\ Len(chain) = 1 /\ chain[1].op = "Transform"
    /\ chain[1].args.value = ndarray(Cell4Grid)
    /\ trafo.matrix = << <<R(1), R(2), R(3)>>, <<R(4), R(5), R(6)>>, <<R(7), R(8), R(9)>> >>
    /\ det(trafo.matrix) = R(0)
    /\ \A i \in 1..3, j \in 1..3 :
          Cofactor(trafo.matrix, i, j) # R(0) /\ IsInf(trafo.inverse_transpose[i][j])

(***************************************************************************)
(* Evaluation over arrays (the vectorized variant of the BSDF notebook)    *)
(***************************************************************************)
\* Number of elements of an array given to one call.
BatchLen == 2

\* A sph_to_dir that measures theta from the x axis.
sph_to_dir_from_x(theta, phi) ==
    LET st == SinDeg(theta)
        ct == CosDeg(theta)
        sp == SinDeg(phi)
        cp == CosDeg(phi)
    IN  <<ct, RMul(sp, st), RMul(cp, st)>>

\* sph_to_dir(theta, phi) of the BSDF notebook, for angles that are given in
\* degrees and are multiples of 90.
sph_to_dir(theta, phi) ==
    LET st == SinDeg(theta)
        ct == CosDeg(theta)
        sp == SinDeg(phi)
        cp == CosDeg(phi)
    IN  <<RMul(cp, st), RMul(sp, st), ct>>

\* The operations evaluated over arrays: trafo @ x for the three kinds of
\* entity, frame.to_local(x), and sph_to_dir.
BatchOps == Kinds \cup {"to_local", "sph_to_dir"}

\* Pairs (theta, phi).
Angles == {<<0, 0>>, <<90, 0>>, <<90, 90>>}

\* The elements an array of arguments of op is made of.
BatchInputs(op) == IF op = "sph_to_dir" THEN Angles ELSE Coords

\* The arrays of BatchLen different elements.
Batches(op) ==
    {xs \in [1..BatchLen -> BatchInputs(op)] :
        \A i, j \in 1..BatchLen : i # j => xs[i] # xs[j]}

\* The operation op on one element.
ElementOp(by, op, x) ==
    CASE op \in Kinds       -> Apply(by.trafo, op, x)
      [] op = "to_local"    -> to_local(by.frame, x)
      [] op = "sph_to_dir"  -> sph_to_dir(x[1], x[2])

\* The entry of a result array that has not been written yet.
Unset == <<>>

\* The indices of the array in flight that have not been evaluated.
Unevaluated == {i \in DOMAIN last.res : last.res[i] = Unset}

\* A call with an array argument: nothing is evaluated yet.
BatchBegin ==
    /\ Running /\ ~pending
    /\ \E op \in BatchOps : \E xs \in Batches(op) :
          last' = [kind |-> "batch", by |-> [trafo |-> trafo, frame |-> frame],
                   arg |-> [op |-> op, xs |-> xs],
                   res |-> [i \in 1..BatchLen |-> Unset]]
    /\ UNCHANGED <<trafo, base, chain, S, pending, frame, ptrafo, nops>>

\* The elements are written in the order in which they are finished.
BatchStep_in_arrival_order ==
    /\ last.kind = "batch"
    /\ \E i \in Unevaluated :
          LET k == CHOOSE m \in Unevaluated : \A n \in Unevaluated : m <= n
          IN  last' = [last EXCEPT !.res[k] = ElementOp(last.by, last.arg.op, last.arg.xs[i])]
    /\ UNCHANGED <<trafo, base, chain, S, pending, frame, ptrafo, nops>>

\* One element is evaluated; the elements are taken in any order.
BatchStep ==
    /\ last.kind = "batch"
    /\ \E i \in Unevaluated :
          last' = [last EXCEPT !.res[i] = ElementOp(last.by, last.arg.op, last.arg.xs[i])]
    /\ UNCHANGED <<trafo, base, chain, S, pending, frame, ptrafo, nops>>

\* A transform and a frame are built, then one call evaluates an array.
BatchNext ==
    \/ Translate
    \/ Scale
    \/ ToFrame
    \/ BatchBegin
    \/ BatchStep

BatchSpec == Init /\ [][BatchNext]_vars

\* C27: an operation applied to an array gives, at each index, the result of
\* the operation on the element at that index, in whichever order the
\* elements are evaluated: every entry written so far is that result, and an
\* entry that has been written does not change.
C27_Elementwise ==
    [][(last.kind = "batch" /\ last'.kind = "batch") =>
          \A i \in 1..BatchLen :
              /\ last'.res[i] \in
                    {Unset, ElementOp(last.by, last.arg.op, last.arg.xs[i])}
              /\ last.res[i] # Unset => last'.res[i] = last.res[i]]_vars

\* The array (3, 4, 5), (1, 1, 1) of points has been evaluated under
\* translate([0, 1, 2]), the second element first.
C27_Witness ==
    /\ last.kind = "batch"
    /\ last.arg.op = "point"
    /\ last.arg.xs = <<V3(3, 4, 5), V3(1, 1, 1)>>
    /\ last.by.trafo = translate(V3(0, 1, 2))
    /\ last.res = <<V3(3, 5, 7), V3(1, 2, 3)>>

(***************************************************************************)
(* Spherical coordinates of a direction in local coordinates               *)
(***************************************************************************)
\* a <= b, for numbers.
RLeq(a, b) == a[1] * b[2] <= b[1] * a[2]

\* dr.clip(x, lo, hi)
Clip(x, lo, hi) == IF RLeq(x, lo) THEN lo ELSE IF RLeq(hi, x) THEN hi ELSE x

\* Frame3f.cos_theta(v): theta is the angle between v and n.
cos_theta(v) == v[3]

\* Frame3f.cos_theta_2(v)
cos_theta_2(v) == RMul(v[3], v[3])

\* Frame3f.sin_theta_2(v)
sin_theta_2(v) == RAdd(RMul(v[1], v[1]), RMul(v[2], v[2]))

\* Frame3f.sin_phi_2(v): phi is the angle from s, about n.
sin_phi_2(v) ==
    LET s2 == sin_theta_2(v)
    IN  IF s2 = R(0) THEN R(0) ELSE Clip(RDiv(RMul(v[2], v[2]), s2), R(0), R(1))

\* Frame3f.cos_phi_2(v)
cos_phi_2(v) ==
    LET s2 == sin_theta_2(v)
    IN  IF s2 = R(0) THEN R(1) ELSE Clip(RDiv(RMul(v[1], v[1]), s2), R(0), R(1))

SphericalQueries == {"cos_theta", "cos_theta_2", "sin_theta_2", "sin_phi_2", "cos_phi_2"}

\* The query q on the direction v.
Spherical(q, v) ==
    CASE q = "cos_theta"   -> cos_theta(v)
      [] q = "cos_theta_2" -> cos_theta_2(v)
      [] q = "sin_theta_2" -> sin_theta_2(v)
      [] q = "sin_phi_2"   -> sin_phi_2(v)
      [] q = "cos_phi_2"   -> cos_phi_2(v)

\* Pairs (theta, phi) in degrees.
SphericalAngles == {0, 90, 180} \X {0, 90, 180, 270}

\* The directions in local coordinates: the one frame.to_local has just
\* returned, and the directions sph_to_dir makes of a pair of angles.
LocalDirections ==
    (IF last.kind = "to_local" THEN {[v |-> last.res, angles |-> <<>>]} ELSE {})
        \cup {[v |-> sph_to_dir(a[1], a[2]), angles |-> a] : a \in SphericalAngles}

\* mi.Frame3f.cos_theta(v), mi.Frame3f.sin_theta_2(v), ...
SphericalQuery ==
    /\ \E q \in SphericalQueries, d \in LocalDirections :
          last' = [kind |-> q, by |-> frame, arg |-> d, res |-> <<Spherical(q, d.v)>>]
    /\ UNCHANGED <<trafo, base, chain, S, pending, frame, ptrafo, nops>>

\* The statements on frames and the queries on local directions.
QueryNext == FrameNext \/ SphericalQuery

QuerySpec == Init /\ [][QueryNext]_vars

\* C28: the spherical queries are closed-form functions of the local
\* direction v, with theta measured from n and phi from s:
\* cos_theta_2(v) = cos_theta(v)^2, sin_theta_2(v) + cos_theta_2(v) = |v|^2
\* (1 for the unit directions of sph_to_dir), sin_phi_2(v) + cos_phi_2(v) = 1
\* when sin_theta_2(v) is not 0, for sph_to_dir(theta, phi) they give
\* cos(theta), sin(theta)^2, sin(phi)^2 and cos(phi)^2, and a query leaves
\* the frame and every transform as they were.
C28_SphericalQueries ==
    [][(last'.kind \in SphericalQueries /\ last' # last) =>
          LET v == last'.arg.v
              a == last'.arg.angles
          IN  /\ UNCHANGED <<frame, trafo, S, ptrafo>>
              /\ last'.res = <<Spherical(last'.kind, v)>>
              /\ cos_theta_2(v) = RMul(cos_theta(v), cos_theta(v))
              /\ RAdd(sin_theta_2(v), cos_theta_2(v)) = dot(v, v)
              /\ sin_theta_2(v) # R(0) => RAdd(sin_phi_2(v), cos_phi_2(v)) = R(1)
              /\ a # <<>> =>
                    /\ dot(v, v) = R(1)
                    /\ cos_theta(v) = CosDeg(a[1])
                    /\ sin_theta_2(v) = RMul(SinDeg(a[1]), SinDeg(a[1]))
                    /\ sin_theta_2(v) # R(0) =>
                          /\ sin_phi_2(v) = RMul(SinDeg(a[2]), SinDeg(a[2]))
                          /\ cos_phi_2(v) = RMul(CosDeg(a[2]), CosDeg(a[2]))]_vars

\* sin_phi_2 of the local vector (1, 2, 3) that cell 3 computes: 4/5.
C28_Witness ==
    /\ last.kind = "sin_phi_2"
    /\ last.arg.v = V3(1, 2, 3)
    /\ last.res = <<Rat(4, 5)>>
    /\ cos_phi_2(last.arg.v) = Rat(1, 5)

(***************************************************************************)
(* The BSDF notebook: a grid of directions, one evaluation, one image      *)
(***************************************************************************)
\* res = 300
res == 300

\* The resolutions for which the grid is evaluated and plotted.
Resolutions == {1, 2}

\* The values of one colour channel.
Values == {0, 1}

\* dr.linspace(mi.Float, 0, hi, n): sample i as a fraction of hi.
linspace(n) == [i \in 1..n |-> IF n = 1 THEN R(0) ELSE Rat(i - 1, n - 1)]

\* dr.meshgrid(x, y): two flat arrays of Len(x) * Len(y) entries in which the
\* first argument varies fastest ('xy' indexing).
meshgrid(x, y) ==
    LET nx == Len(x)
        ny == Len(y)
    IN  << [k \in 1..(nx * ny) |-> x[((k - 1) % nx) + 1]],
           [k \in 1..(nx * ny) |-> y[((k - 1) \div nx) + 1]] >>

\* The grid of directions for the resolution r.
GridOf(r) == meshgrid(linspace(r), linspace(2 * r))

\* The responses of the BSDF to the directions of a grid: the red channel as
\* a function of (theta, phi).
Responses(x, y) == [{x[i] : i \in 1..Len(x)} \X {y[j] : j \in 1..Len(y)} -> Values]

\* bsdf.eval(ctx, si, wo) for the array wo of directions: a Color3f of flat
\* arrays, entry k for direction k.
eval(f, grid) ==
    [r |-> [k \in 1..Len(grid[1]) |-> f[<<grid[1][k], grid[2][k]>>]],
     g |-> [k \in 1..Len(grid[1]) |-> 0],
     b |-> [k \in 1..Len(grid[1]) |-> 0]]

\* np.array(values): one row per channel.
np_array(values) == <<values.r, values.g, values.b>>

\* a.reshape(rows, cols), in row-major order.
reshape(a, rows, cols) ==
    [i \in 1..rows |-> [j \in 1..cols |-> a[(i - 1) * cols + j]]]

\* a.T
ndarray_T(a) == [j \in 1..Len(a[1]) |-> [i \in 1..Len(a) |-> a[i][j]]]

\* theta_o, phi_o = dr.meshgrid(dr.linspace(.., res), dr.linspace(.., 2 * res))
Meshgrid ==
    /\ Running
    /\ \E r \in Resolutions :
          last' = [kind |-> "meshgrid", by |-> [res |-> r], arg |-> GridOf(r), res |-> <<>>]
    /\ UNCHANGED <<trafo, base, chain, S, pending, frame, ptrafo, nops>>

\* values = bsdf.eval(mi.BSDFContext(), si, wo)
Eval ==
    /\ last.kind = "meshgrid"
    /\ \E f \in Responses(linspace(last.by.res), linspace(2 * last.by.res)) :
          last' = [kind |-> "eval", by |-> [res |-> last.by.res, f |-> f],
                   arg |-> last.arg, res |-> eval(f, last.arg)]
    /\ UNCHANGED <<trafo, base, chain, S, pending, frame, ptrafo, nops>>

\* values_np = np.array(values)
ToNumpy ==
    /\ last.kind = "eval"
    /\ last' = [last EXCEPT !.kind = "numpy", !.res = np_array(last.res)]
    /\ UNCHANGED <<trafo, base, chain, S, pending, frame, ptrafo, nops>>

\* values_r = values_np[0, :]; values_r = values_r.reshape(2 * res, res).T;
\* ax.imshow(values_r, ...)
Imshow ==
    /\ last.kind = "numpy"
    /\ last' = [last EXCEPT !.kind = "imshow",
                            !.res = ndarray_T(reshape(last.res[1], 2 * last.by.res, last.by.res))]
    /\ UNCHANGED <<trafo, base, chain, S, pending, frame, ptrafo, nops>>

\* The cells of the BSDF notebook.
PlotNext ==
    \/ Meshgrid
    \/ Eval
    \/ ToNumpy
    \/ Imshow

PlotSpec == Init /\ [][PlotNext]_vars

\* The image shows theta along the rows and phi along the columns: r rows of
\* 2r entries, the entry at row i and column j being the response to
\* (theta sample i, phi sample j).
ImageLayout ==
    last.kind = "imshow" =>
        LET r == last.by.res
            theta == linspace(r)
            phi == linspace(2 * r)
        IN  /\ Len(last.res) = r
            /\ \A i \in 1..r :
                  /\ Len(last.res[i]) = 2 * r
                  /\ \A j \in 1..(2 * r) : last.res[i][j] = last.by.f[<<theta[i], phi[j]>>]

\* C29: with res = 300 the grid of directions given to the one bsdf.eval
\* call holds 18000 directions, and the image has the response to
\* (theta sample i, phi sample j) at row i, column j.
C29_Directions18000 ==
    /\ last.kind = "meshgrid" => Len(GridOf(res)[1]) = 18000
    /\ ImageLayout

\* What the notebook computes: with res = 300 the grid holds
\* res * 2 * res = 180000 directions, bsdf.eval returns one value for each,
\* and the image is laid out as ImageLayout says.
GridAndImage ==
    /\ last.kind = "meshgrid" =>
          Len(GridOf(res)[1]) = 180000 /\ Len(GridOf(res)[2]) = 180000
    /\ last.kind \in {"meshgrid", "eval"} =>
          Len(last.arg[1]) = last.by.res * (2 * last.by.res)
    /\ last.kind = "eval" =>
          /\ Len(last.res.r) = Len(last.arg[1])
          /\ \A k \in 1..Len(last.arg[1]) :
                last.res.r[k] = last.by.f[<<last.arg[1][k], last.arg[2][k]>>]
    /\ ImageLayout

====
